---------------------------- MODULE Spec2Model ----------------------------
(***************************************************************************)
(* Verification model of Termux-Setup.py (Termux Power Suite).             *)
(*                                                                         *)
(*   SpecRetry : run_with_retry, the retrying executor (lines 116-152).    *)
(*   SpecTool  : termux-tool-manager.sh, the script written by             *)
(*               create_tool_manager (lines 717-912), run under `set -e`.  *)
(*   SpecLock  : termux-auto-maintain.sh instances started from .bashrc    *)
(*               and the `toolman` alias (lines 948-989, 1062-1066).       *)
(*   SpecFix   : smart_fix_token (lines 165-225).                          *)
(*   SpecCorrect : autocorrect_command (lines 227-277).                    *)
(*   SpecMenu  : interactive_candidates_menu (lines 367-425).              *)
(*   SpecPrepare : prepare_command_for_run (lines 514-585).                *)
(*   SpecSearch : pkg_search_candidates and search_github_repos            *)
(*               (lines 282-362).                                          *)
(*   SpecInstall : install_packages and main (lines 598-710, 1079-1095).   *)
(***************************************************************************)
EXTENDS Integers, Sequences, FiniteSets, TLC

VARIABLES
    \* ---- run_with_retry ----
    pc,            \* position inside run_with_retry
    max_retries,   \* parameter max_retries of the call
    timeout,       \* parameter timeout of the call
    base_backoff,  \* keyword base_backoff the caller tries to pass (0: not passed)
    selfUpdateOk,  \* SELF_UPDATE_SCRIPT exists and is executable
    attempt,       \* local variable attempt
    last_exc,      \* local variable last_exc
    result,        \* what the call returned (NoArg: nothing returned)
    events,        \* what the call did so far: executions, recoveries, sleeps
    \* ---- termux-tool-manager.sh ----
    tpc,           \* position of the script
    toolList,      \* entries of tools-list.txt
    idx,           \* number of entries read by the while loop of main
    dirs,          \* content of $TOOLS_DIR/<name> per tool (Absent: no directory)
    backups,       \* snapshot archives in $BACKUP_DIR: content archived, per tool
    backup_file,   \* shell variable backup_file ("" when no archive)
    pre,           \* content of the tool directory when process_line started
    tlog,          \* what process_line did for the current entry
    processed,     \* entries for which process_line was entered
    exitCode,      \* exit status of the script (-1 while running)
    listExists,    \* tools-list.txt exists
    \* ---- termux-auto-maintain.sh / toolman ----
    lockfile,      \* $HOME/.termux-maintain.lock exists
    mpc,           \* position of each maintenance process
    owner,         \* process has installed the EXIT trap that removes the lock
    mtool,         \* tool directory each process is mutating (0: none)
    \* ---- smart_fix_token ----
    ftoken,        \* token given to smart_fix_token ("" before a call)
    ffixed,        \* what smart_fix_token returned for it
    ftwice,        \* what smart_fix_token returned for ffixed ("" before that)
    \* ---- autocorrect_command ----
    apc,           \* position inside autocorrect_command
    acmd,          \* parameter cmd
    amode,         \* AUTO_CORRECT_MODE
    aparts,        \* local variable parts after the token loop
    ashown,        \* corrected command shown in the prompt ("" when none)
    areply,        \* what input() gave
    aout,          \* returned command
    alog,          \* records autocorrect_command wrote with log(), in order
    \* ---- interactive_candidates_menu ----
    menu_pc,       \* position inside interactive_candidates_menu
    pkg_cands,     \* parameter pkg_cands
    gh_cands,      \* parameter gh_cands
    sel,           \* local variable sel
    chosen,        \* local variable chosen, returned at the end
    \* ---- prepare_command_for_run ----
    prep_pc,       \* position inside prepare_command_for_run
    prep_cmd,      \* parameter cmd
    prep_env,      \* mode, installed packages, search results, operator's picks
    prep_corrected, \* cmd after autocorrect_command (line 522)
    prep_out,      \* returned command
    prep_ran,      \* actions run_chosen_actions ran during the call, in order
    \* ---- pkg_search_candidates ----
    s_pc,          \* position inside pkg_search_candidates
    s_run,         \* what subprocess.run did: raised, or exit status and output
    s_out,         \* returned list
    s_name,        \* name the candidates are compared with ("" before that)
    s_cutoff,      \* parameter cutoff of choose_best_package, in hundredths
    s_best,        \* what choose_best_package returned ("" for None)
    \* ---- search_github_repos ----
    g_pc,          \* position inside search_github_repos
    per_page,      \* parameter per_page
    max_total,     \* parameter max_total
    results,       \* local variable results: <<page, index>> of the items kept
    fetched,       \* local variable fetched
    page,          \* local variable page
    g_log,         \* what each curl call gave, in order
    g_out,         \* returned list
    \* ---- main and install_packages ----
    inst_pc,       \* position inside main / install_packages
    on_path,       \* programs shutil.which finds
    pkgs_installed, \* packages pkg list-installed names
    inst_found,    \* what pkg search prints
    pkg_i,         \* rounds of the loop over PKGS done
    post_i,        \* best-effort steps after the loop done
    inst_log       \* commands executed and packages skipped, in order

retryVars == <<pc, max_retries, timeout, base_backoff, selfUpdateOk, attempt,
               last_exc, result, events>>
toolVars  == <<tpc, toolList, idx, dirs, backups, backup_file, pre, tlog,
               processed, exitCode, listExists>>
lockVars  == <<lockfile, mpc, owner, mtool>>
fixVars   == <<ftoken, ffixed, ftwice>>
corrVars  == <<apc, acmd, amode, aparts, ashown, areply, aout, alog>>
menuVars  == <<menu_pc, pkg_cands, gh_cands, sel, chosen>>
prepVars  == <<prep_pc, prep_cmd, prep_env, prep_corrected, prep_out, prep_ran>>
searchVars == <<s_pc, s_run, s_out, s_name, s_cutoff, s_best, g_pc, per_page, max_total, results, fetched,
                page, g_log, g_out>>
instVars  == <<inst_pc, on_path, pkgs_installed, inst_found, pkg_i, post_i, inst_log>>
coreVars  == <<retryVars, toolVars, lockVars>>
moreVars  == <<fixVars, corrVars, menuVars, prepVars, instVars, searchVars>>
vars      == <<retryVars, toolVars, lockVars, moreVars>>


NoArg == "none"

-----------------------------------------------------------------------------
(* Program constants                                                       *)
MAX_RETRIES  == 3
BACKOFF_BASE == 4
CMD_TIMEOUT  == 900
TOOL_MAX_TRIES == 3

(* Bounds of the model                                                     *)
MaxRetriesBound == 4
MaxEntries == 2
NumShells == 2
MaxPkgHits == 3
MaxGhHits == 2
NumPkgs == 3
MaxLines == 3
MaxPages == 4

\* values of max_retries a call may pass (all callers pass 1, 2 or 3; 0 makes
\* the while loop empty)
RetryChoices == 0..MaxRetriesBound
\* timeouts the callers pass: termux-setup-storage (120) and the default
TimeoutChoices == {120, CMD_TIMEOUT}
\* how long the command would run if never interrupted
Durations == {60, 500}
\* a base_backoff a caller may want to supply (0: the keyword is not passed)
BaseChoices == {0, 2}

-----------------------------------------------------------------------------
(* run_with_retry                                                          *)

Ev(op, n, kind, res, dur, secs) ==
    [op |-> op, n |-> n, kind |-> kind, res |-> res, dur |-> dur, secs |-> secs]

\* run_raw(["bash","-lc",cmd], check=True, capture=True, timeout=timeout)
ExecResult(launched, dur, rc, t) ==
    IF ~launched THEN "launch_error"
    ELSE IF dur > t THEN "timeout"
    ELSE IF rc # 0 THEN "nonzero"
    ELSE "ok"

\* while attempt < max_retries
LoopGuardOffByOne(a, m) == a <= m
LoopGuard(a, m) == a < m

\* if attempt < max_retries (more attempts remain)
MoreAttempts(a, m) == a < m

\* backoff = BACKOFF_BASE * (2 ** (attempt - 1))
BackoffLinear(a) == BACKOFF_BASE * a
Backoff(a) == BACKOFF_BASE * (2 ^ (a - 1))

\* the recovery action chosen at lines 139-143
RecoveryKind(scriptOk) == IF scriptOk THEN "self_update" ELSE "pkg_update"

\* position after a successful execution: `return cp`
AfterSuccessContinue == "loop"
AfterSuccess == "returned"

\* position after the recovery action: its exception is caught at line 144
AfterRecoveryPropagate(res) == IF res = "raise" THEN "raised" ELSE "sleep"
AfterRecovery(res) == "sleep"

\* the signature (cmd, max_retries, timeout) has no base_backoff parameter
AcceptsCall(b) == b = 0

Call(m, t, b, s) ==
    /\ pc = "idle"
    /\ max_retries' = m
    /\ timeout' = t
    /\ base_backoff' = b
    /\ selfUpdateOk' = s
    /\ attempt' = 0
    /\ last_exc' = NoArg
    /\ pc' = IF AcceptsCall(b) THEN "loop" ELSE "typeerror"
    /\ UNCHANGED <<result, events>>

Attempt(launched, dur, rc) ==
    /\ pc = "loop"
    /\ LoopGuard(attempt, max_retries)
    /\ LET a == attempt + 1
           r == ExecResult(launched, dur, rc, timeout)
           d == IF launched THEN dur ELSE 0
       IN  /\ attempt' = a
           /\ events' = Append(events, Ev("exec", a, "cmd", r, d, 0))
           /\ IF r = "ok"
              THEN /\ result' = "ok"
                   /\ pc' = AfterSuccess
                   /\ UNCHANGED last_exc
              ELSE /\ last_exc' = r
                   /\ pc' = IF MoreAttempts(a, max_retries) THEN "recover" ELSE "loop"
                   /\ UNCHANGED result
    /\ UNCHANGED <<max_retries, timeout, base_backoff, selfUpdateOk>>

Recover(res) ==
    /\ pc = "recover"
    /\ events' = Append(events, Ev("recover", attempt, RecoveryKind(selfUpdateOk), res, 0, 0))
    /\ pc' = AfterRecovery(res)
    /\ UNCHANGED <<max_retries, timeout, base_backoff, selfUpdateOk, attempt,
                   last_exc, result>>

Sleep ==
    /\ pc = "sleep"
    /\ events' = Append(events, Ev("sleep", attempt, "backoff", "ok", 0, Backoff(attempt)))
    /\ pc' = "loop"
    /\ UNCHANGED <<max_retries, timeout, base_backoff, selfUpdateOk, attempt,
                   last_exc, result>>

RaiseExhausted ==
    /\ pc = "loop"
    /\ ~LoopGuard(attempt, max_retries)
    /\ pc' = "raised"
    /\ UNCHANGED <<max_retries, timeout, base_backoff, selfUpdateOk, attempt,
                   last_exc, result, events>>

-----------------------------------------------------------------------------
(* termux-tool-manager.sh                                                  *)

Tools == {"t1", "t2"}

\* content of a tool directory: upstream version, whether it holds .git,
\* what tooltest.sh and test.sh would do if run, and whether a failed
\* operation left it half-changed
Content(v, g, tt, t, d) ==
    [exists |-> TRUE, ver |-> v, git |-> g, tooltest |-> tt, test |-> t, dirty |-> d]
Absent ==
    [exists |-> FALSE, ver |-> 0, git |-> FALSE, tooltest |-> "absent",
     test |-> "absent", dirty |-> FALSE]

\* test scripts a new upstream version may ship: <<tooltest.sh, test.sh>>
ScriptCombos ==
    {<<"absent", "absent">>, <<"pass", "absent">>, <<"fail", "absent">>,
     <<"absent", "pass">>}

\* a line of tools-list.txt: blank or comment, git (git+, gist+ or a bare
\* URL), or url+
Entry(k, n) == [kind |-> k, name |-> n]
Entries == {Entry("comment", "")} \cup {Entry(k, n) : k \in {"git", "url"}, n \in Tools}
ToolLists == UNION {[1..n -> Entries] : n \in 0..MaxEntries}

\* the six comment lines main writes when tools-list.txt is missing
TemplateList == [i \in 1..6 |-> Entry("comment", "")]

TLog(op, res, tries, waits) == [op |-> op, res |-> res, tries |-> tries, waits |-> waits]

CurEntry == toolList[idx]
CurName  == CurEntry.name

\* set -e: a simple command that ends with a non-zero status ends the script
Errexit(status) == status # 0

\* the retry loops of git_clone_with_retry, git_pull_with_retry and
\* download_url_with_retry: k is the first attempt that succeeds (0: none);
\* each failed attempt is followed by sleep $((5 * tries))
RetryTries(k) == IF k = 0 THEN TOOL_MAX_TRIES ELSE k
RetryFailures(k) == IF k = 0 THEN TOOL_MAX_TRIES ELSE k - 1
RetryWaitsFixed(k) == [i \in 1..RetryFailures(k) |-> 5]
RetryWaits(k) == [i \in 1..RetryFailures(k) |-> 5 * i]

\* backup_tool: the archive list and the value echoed into backup_file
BackupArchives(name, tarOk) ==
    IF dirs[name].exists /\ tarOk
    THEN Append(backups, [tool |-> name, content |-> dirs[name]])
    ELSE backups
BackupEcho(name, tarOk) ==
    IF dirs[name].exists /\ tarOk THEN Len(backups) + 1 ELSE 0

\* rollback_tool: exit status, and the directory it leaves
RollbackStatus(bf, extract) ==
    IF bf = 0 THEN 1 ELSE IF extract = "ok" THEN 0 ELSE 1
RollbackKeepsDir(cur, bf, extract) == cur
RollbackDir(cur, bf, extract) ==
    IF bf = 0 THEN cur
    ELSE IF extract = "ok" THEN backups[bf].content
    ELSE IF extract = "partial" THEN [backups[bf].content EXCEPT !.dirty = TRUE]
    ELSE Absent

\* `[ -n "$backup_file" ] && rollback_tool ...` is the last command of
\* process_line on a failed pull or download: its status when no rollback runs
GuardStatus(bf) == IF bf # 0 THEN 0 ELSE 1

\* the health check of lines 874-880: present when either script exists, and
\* what is run is always `bash tooltest.sh`
HealthPresent(c) == c.tooltest # "absent" \/ c.test # "absent"
HealthPasses(c) == c.tooltest = "pass"

TExit(code) ==
    /\ tpc' = "exited"
    /\ exitCode' = code

TStart ==
    /\ tpc = "start"
    /\ IF ~listExists
       THEN /\ toolList' = TemplateList
            /\ listExists' = TRUE
            /\ TExit(0)
       ELSE /\ tpc' = "read"
            /\ UNCHANGED <<toolList, listExists, exitCode>>
    /\ UNCHANGED <<idx, dirs, backups, backup_file, pre, tlog, processed>>

\* one turn of `while read line; do process_line "$line"; done`, up to the
\* branch process_line takes
TRead ==
    /\ tpc = "read"
    /\ IF idx = Len(toolList)
       THEN /\ TExit(0)
            /\ UNCHANGED <<idx, pre, tlog, processed>>
       ELSE LET e == toolList[idx + 1] IN
            /\ idx' = idx + 1
            /\ processed' = processed \cup {idx + 1}
            /\ tlog' = <<>>
            /\ pre' = IF e.kind = "comment" THEN Absent ELSE dirs[e.name]
            /\ tpc' = IF e.kind = "comment" THEN "read"
                      ELSE IF e.kind = "url" THEN "url_backup"
                      ELSE IF dirs[e.name].exists /\ dirs[e.name].git THEN "git_backup"
                      ELSE "clone"
            /\ UNCHANGED exitCode
    /\ UNCHANGED <<toolList, listExists, dirs, backups, backup_file>>

TBackup(tarOk) ==
    /\ tpc \in {"git_backup", "url_backup"}
    /\ backups' = BackupArchives(CurName, tarOk)
    /\ backup_file' = BackupEcho(CurName, tarOk)
    /\ tlog' = Append(tlog, TLog("backup", IF BackupEcho(CurName, tarOk) # 0 THEN "ok" ELSE "none", 0, <<>>))
    /\ tpc' = IF tpc = "git_backup" THEN "pull" ELSE "download"
    /\ UNCHANGED <<toolList, listExists, idx, dirs, pre, processed, exitCode>>

\* what follows a failed pull or download (lines 857, 883)
TAfterFailedUpdate ==
    IF backup_file # 0
    THEN /\ tpc' = "rollback"
         /\ UNCHANGED exitCode
    ELSE IF Errexit(GuardStatus(backup_file))
         THEN TExit(1)
         ELSE /\ tpc' = "read"
              /\ UNCHANGED exitCode

TPull(k, sc, halfway) ==
    /\ tpc = "pull"
    /\ IF k # 0
       THEN /\ dirs' = [dirs EXCEPT ![CurName] =
                           Content(dirs[CurName].ver + 1, TRUE, sc[1], sc[2], FALSE)]
            /\ tlog' = Append(tlog, TLog("pull", "ok", RetryTries(k), RetryWaits(k)))
            /\ tpc' = "health"
            /\ UNCHANGED exitCode
       ELSE /\ dirs' = [dirs EXCEPT ![CurName].dirty = halfway \/ @]
            /\ tlog' = Append(tlog, TLog("pull", "fail", RetryTries(k), RetryWaits(k)))
            /\ TAfterFailedUpdate
    /\ UNCHANGED <<toolList, listExists, idx, backups, backup_file, pre, processed>>

THealth ==
    /\ tpc = "health"
    /\ LET c == dirs[CurName] IN
       IF HealthPresent(c)
       THEN IF HealthPasses(c)
            THEN /\ tlog' = Append(tlog, TLog("health", "ok", 1, <<>>))
                 /\ tpc' = "read"
            ELSE /\ tlog' = Append(tlog, TLog("health", "fail", 1, <<>>))
                 /\ tpc' = "rollback"
       ELSE /\ tlog' = Append(tlog, TLog("health", "skipped", 0, <<>>))
            /\ tpc' = "read"
    /\ UNCHANGED <<toolList, listExists, idx, dirs, backups, backup_file, pre,
                   processed, exitCode>>

TRollbackSnapshots(extract) ==
    /\ tpc = "rollback"
    /\ dirs' = [dirs EXCEPT ![CurName] = RollbackDir(@, backup_file, extract)]
    /\ LET st == RollbackStatus(backup_file, extract) IN
       /\ tlog' = Append(tlog, TLog("rollback",
                     IF backup_file = 0 THEN "no_backup" ELSE IF st = 0 THEN "ok" ELSE "fail",
                     1, <<>>))
       /\ IF Errexit(st)
          THEN TExit(1)
          ELSE /\ tpc' = "read"
               /\ UNCHANGED exitCode
    /\ backups' = Append(backups, [tool |-> CurName, content |-> dirs[CurName]])
    /\ UNCHANGED <<toolList, listExists, idx, backup_file, pre, processed>>

TRollback(extract) ==
    /\ tpc = "rollback"
    /\ dirs' = [dirs EXCEPT ![CurName] = RollbackDir(@, backup_file, extract)]
    /\ LET st == RollbackStatus(backup_file, extract) IN
       /\ tlog' = Append(tlog, TLog("rollback",
                     IF backup_file = 0 THEN "no_backup" ELSE IF st = 0 THEN "ok" ELSE "fail",
                     1, <<>>))
       /\ IF Errexit(st)
          THEN TExit(1)
          ELSE /\ tpc' = "read"
               /\ UNCHANGED exitCode
    /\ UNCHANGED <<toolList, listExists, idx, backups, backup_file, pre, processed>>

TClone(k, sc) ==
    /\ tpc = "clone"
    /\ k # 0 => ~dirs[CurName].exists
    /\ IF k # 0
       THEN /\ dirs' = [dirs EXCEPT ![CurName] = Content(1, TRUE, sc[1], sc[2], FALSE)]
            /\ tlog' = Append(tlog, TLog("clone", "ok", RetryTries(k), RetryWaits(k)))
       ELSE /\ tlog' = Append(tlog, TLog("clone", "fail", RetryTries(k), RetryWaits(k)))
            /\ UNCHANGED dirs
    /\ tpc' = "read"
    /\ UNCHANGED <<toolList, listExists, idx, backups, backup_file, pre, processed,
                   exitCode>>

TDownload(fetcher, k, sc) ==
    /\ tpc = "download"
    /\ IF fetcher /\ k # 0
       THEN /\ dirs' = [dirs EXCEPT ![CurName] =
                           Content(@.ver + 1, @.git, sc[1], sc[2], FALSE)]
            /\ tlog' = Append(tlog, TLog("download", "ok", RetryTries(k), RetryWaits(k)))
            /\ tpc' = "read"
            /\ UNCHANGED exitCode
       ELSE /\ tlog' = Append(tlog, TLog("download", "fail",
                              IF fetcher THEN RetryTries(k) ELSE 0,
                              IF fetcher THEN RetryWaits(k) ELSE <<>>))
            /\ UNCHANGED dirs
            /\ TAfterFailedUpdate
    /\ UNCHANGED <<toolList, listExists, idx, backups, backup_file, pre, processed>>

-----------------------------------------------------------------------------
(* termux-auto-maintain.sh, started by .bashrc, and the toolman alias       *)

\* process 0 is a manual `toolman`; 1..NumShells are the auto-maintain
\* processes started in the background by newly opened shells
Procs == 0..NumShells
AutoProcs == 1..NumShells

\* positions after the lock-file test of line 955 was passed
PastCheckPositions == {"touch", "battery", "selfupdate", "toolman", "tm", "finish"}

\* ($HOME/termux-auto-maintain.sh > /dev/null 2>&1 &) in .bashrc
MOpenShell(p) ==
    /\ p \in AutoProcs
    /\ mpc[p] = "idle"
    /\ mpc' = [mpc EXCEPT ![p] = "check"]
    /\ UNCHANGED <<lockfile, owner, mtool>>

\* if [ -e "$LOCKFILE" ]; then ... exit 0; fi
MCheckLock(p) ==
    /\ mpc[p] = "check"
    /\ mpc' = [mpc EXCEPT ![p] = IF lockfile THEN "done" ELSE "touch"]
    /\ UNCHANGED <<lockfile, owner, mtool>>

\* touch "$LOCKFILE"; trap 'rm -f "$LOCKFILE"' EXIT
MTouch(p) ==
    /\ mpc[p] = "touch"
    /\ lockfile' = TRUE
    /\ owner' = [owner EXCEPT ![p] = TRUE]
    /\ mpc' = [mpc EXCEPT ![p] = "battery"]
    /\ UNCHANGED mtool

\* the EXIT trap of a process that installed it
MExitKeepsLock(p) ==
    /\ lockfile' = lockfile
    /\ mpc' = [mpc EXCEPT ![p] = "done"]
MExit(p) ==
    /\ lockfile' = IF owner[p] THEN FALSE ELSE lockfile
    /\ mpc' = [mpc EXCEPT ![p] = "done"]

\* battery check: exit 0 when unplugged and below 25 %
MBattery(p, low) ==
    /\ mpc[p] = "battery"
    /\ IF low
       THEN MExit(p)
       ELSE /\ mpc' = [mpc EXCEPT ![p] = "selfupdate"]
            /\ UNCHANGED lockfile
    /\ UNCHANGED <<owner, mtool>>

\* 1) self update: a failure is only logged
MSelfUpdate(p) ==
    /\ mpc[p] = "selfupdate"
    /\ mpc' = [mpc EXCEPT ![p] = "toolman"]
    /\ UNCHANGED <<lockfile, owner, mtool>>

\* 2) tool manager, when present and executable; the alias toolman starts
\* the same script directly
MToolManager(p, present) ==
    /\ \/ p \in AutoProcs /\ mpc[p] = "toolman"
       \/ p = 0 /\ mpc[p] = "idle" /\ present
    /\ IF present
       THEN /\ mpc' = [mpc EXCEPT ![p] = "tm"]
            /\ mtool' = [mtool EXCEPT ![p] = 1]
       ELSE /\ mpc' = [mpc EXCEPT ![p] = "finish"]
            /\ UNCHANGED mtool
    /\ UNCHANGED <<lockfile, owner>>

\* the tool manager goes on to the next tool directory, or ends (after the
\* last one, or early under set -e)
MToolStep(p, abort) ==
    /\ mpc[p] = "tm"
    /\ IF abort \/ mtool[p] = Cardinality(Tools)
       THEN /\ mtool' = [mtool EXCEPT ![p] = 0]
            /\ mpc' = [mpc EXCEPT ![p] = IF p = 0 THEN "done" ELSE "finish"]
       ELSE /\ mtool' = [mtool EXCEPT ![p] = @ + 1]
            /\ UNCHANGED mpc
    /\ UNCHANGED <<lockfile, owner>>

\* a command of the script itself fails and `set -e` ends it: touch (the
\* trap is not installed yet), or log (tee cannot append) at a later line
MAbort(p) ==
    /\ p \in AutoProcs
    /\ mpc[p] \in {"touch", "battery", "selfupdate", "toolman", "finish"}
    /\ MExit(p)
    /\ UNCHANGED <<owner, mtool>>

\* end of the script: the EXIT trap runs
MFinish(p) ==
    /\ mpc[p] = "finish"
    /\ MExit(p)
    /\ UNCHANGED <<owner, mtool>>

-----------------------------------------------------------------------------
(* Strings: a command or a token is a string, read character by character  *)
Ch(s, i) == SubSeq(s, i, i)

\* the characters of commands, in code-point order (the order Python
\* compares strings by)
Alphabet == " $&-./0123456789=>ABCDEFGHIJKLMNOPQRSTUVWXYZ_abcdefghijklmnopqrstuvwxyz|"

Ord(c) == CHOOSE i \in 1..Len(Alphabet) : Ch(Alphabet, i) = c

MinOf(S) == CHOOSE x \in S : \A y \in S : x <= y
\* the element of a one-element set; {e(x) : x \in {v}} computes v once
TheOne(S) == CHOOSE x \in S : TRUE
MaxOf(S) == CHOOSE x \in S : \A y \in S : x >= y

\* s < t for Python strings
StrLess(s, t) ==
    LET n == IF Len(s) < Len(t) THEN Len(s) ELSE Len(t)
        d == {i \in 1..n : Ch(s, i) # Ch(t, i)}
    IN  IF d = {} THEN Len(s) < Len(t)
        ELSE Ord(Ch(s, MinOf(d))) < Ord(Ch(t, MinOf(d)))

\* str.strip()
RECURSIVE LStrip(_)
LStrip(s) == IF Len(s) > 0 /\ Ch(s, 1) = " " THEN LStrip(SubSeq(s, 2, Len(s))) ELSE s
RECURSIVE RStrip(_)
RStrip(s) == IF Len(s) > 0 /\ Ch(s, Len(s)) = " " THEN RStrip(SubSeq(s, 1, Len(s) - 1)) ELSE s
Strip(s) == RStrip(LStrip(s))

\* str.lower()
LowerCh(c) ==
    LET upper == "ABCDEFGHIJKLMNOPQRSTUVWXYZ"
        lower == "abcdefghijklmnopqrstuvwxyz"
    IN  IF \E i \in 1..Len(upper) : Ch(upper, i) = c
        THEN Ch(lower, CHOOSE i \in 1..Len(upper) : Ch(upper, i) = c)
        ELSE c
RECURSIVE Lower(_)
Lower(s) == IF Len(s) = 0 THEN "" ELSE LowerCh(Ch(s, 1)) \o Lower(SubSeq(s, 2, Len(s)))

\* index of the first occurrence of character c in s, 0 when there is none
FindCh(s, c) ==
    LET at == {i \in 1..Len(s) : Ch(s, i) = c}
    IN  IF at = {} THEN 0 ELSE MinOf(at)

HasCh(s, c) == FindCh(s, c) # 0
StartsWith(s, p) == Len(s) >= Len(p) /\ SubSeq(s, 1, Len(p)) = p

\* str.split(): the maximal runs of non-blank characters
RECURSIVE Split(_)
Split(s) ==
    LET t == LStrip(s)
        e == FindCh(t, " ")
    IN  IF Len(t) = 0 THEN <<>>
        ELSE IF e = 0 THEN <<t>>
        ELSE <<SubSeq(t, 1, e - 1)>> \o Split(SubSeq(t, e, Len(t)))

\* str.split(sep) for a one-character separator: empty parts are kept
RECURSIVE SplitOn(_, _)
SplitOn(s, sep) ==
    LET e == FindCh(s, sep)
    IN  IF e = 0 THEN <<s>>
        ELSE <<SubSeq(s, 1, e - 1)>> \o SplitOn(SubSeq(s, e + 1, Len(s)), sep)

\* " ".join(parts)
RECURSIVE Join(_)
Join(parts) ==
    IF Len(parts) = 0 THEN ""
    ELSE IF Len(parts) = 1 THEN parts[1]
    ELSE parts[1] \o " " \o Join(Tail(parts))

-----------------------------------------------------------------------------
(* difflib.get_close_matches, as called at lines 219 and 314               *)

\* length of the longest common prefix of a[i..ahi] and b[j..bhi]
RECURSIVE CommonLen(_, _, _, _, _, _)
CommonLen(a, b, i, j, ahi, bhi) ==
    IF i > ahi \/ j > bhi \/ Ch(a, i) # Ch(b, j) THEN 0
    ELSE 1 + CommonLen(a, b, i + 1, j + 1, ahi, bhi)

\* SequenceMatcher.find_longest_match: the block <<i, j, k>> of maximal k,
\* starting earliest in a and, of those, earliest in b
find_longest_match(a, b, alo, ahi, blo, bhi) ==
    LET L == [p \in (alo..ahi) \X (blo..bhi) |-> CommonLen(a, b, p[1], p[2], ahi, bhi)]
        k == MaxOf({L[p] : p \in DOMAIN L})
        i == MinOf({p[1] : p \in {q \in DOMAIN L : L[q] = k}})
        j == MinOf({p[2] : p \in {q \in DOMAIN L : L[q] = k /\ q[1] = i}})
    IN  <<i, j, k>>

\* SequenceMatcher.get_matching_blocks, summed: total size of the blocks
RECURSIVE MatchingSize(_, _, _, _, _, _)
MatchingSize(a, b, alo, ahi, blo, bhi) ==
    IF alo > ahi \/ blo > bhi THEN 0
    ELSE LET m == find_longest_match(a, b, alo, ahi, blo, bhi)
         IN  IF m[3] = 0 THEN 0
             ELSE m[3] + MatchingSize(a, b, alo, m[1] - 1, blo, m[2] - 1)
                       + MatchingSize(a, b, m[1] + m[3], ahi, m[2] + m[3], bhi)

RECURSIVE SumOver(_, _)
SumOver(S, f) ==
    IF S = {} THEN 0
    ELSE LET x == CHOOSE y \in S : TRUE IN f[x] + SumOver(S \ {x}, f)

\* SequenceMatcher.quick_ratio counts the characters the two strings share
QuickMatches(a, b) ==
    LET CountOf(s, c) == Cardinality({i \in 1..Len(s) : Ch(s, i) = c})
        chars == {Ch(a, i) : i \in 1..Len(a)}
    IN  SumOver(chars, [c \in chars |->
            IF CountOf(a, c) < CountOf(b, c) THEN CountOf(a, c) ELSE CountOf(b, c)])

\* 2.0 * matches / length >= cutoff, with the cutoff in hundredths
\* (_calculate_ratio returns 1.0 when length is 0)
RatioReaches(matches, length, cutoff) ==
    length = 0 \/ 200 * matches >= cutoff * length

\* the three tests of get_close_matches, in its order: real_quick_ratio
\* (the shorter length), quick_ratio, ratio
IsClose(a, b, cutoff) ==
    LET length == Len(a) + Len(b)
    IN  /\ RatioReaches(IF Len(a) < Len(b) THEN Len(a) ELSE Len(b), length, cutoff)
        /\ RatioReaches(QuickMatches(a, b), length, cutoff)
        /\ RatioReaches(MatchingSize(a, b, 1, Len(a), 1, Len(b)), length, cutoff)

\* (score, x) > (score, y) for the tuples heapq.nlargest compares
ScoredAbove(x, y, word) ==
    LET mx == MatchingSize(x, word, 1, Len(x), 1, Len(word))
        my == MatchingSize(y, word, 1, Len(y), 1, Len(word))
        lx == Len(x) + Len(word)
        ly == Len(y) + Len(word)
    IN  \/ mx * ly > my * lx
        \/ mx * ly = my * lx /\ StrLess(y, x)

\* get_close_matches(word, possibilities, n=1, cutoff): the empty set, or
\* the set holding the best match
get_close_matches(word, possibilities, cutoff) ==
    UNION {{x \in close : \A y \in close \ {x} : ScoredAbove(x, y, word)} :
              close \in {{x \in possibilities : IsClose(x, word, cutoff)}}}

-----------------------------------------------------------------------------
(* Auto-correct engine: smart_fix_token and autocorrect_command            *)
TOKEN_CUTOFF == 78
PKG_NAME_CONFIDENCE == 72

CANONICAL_COMMANDS_PipAlias ==
    [k \in {"apt", "pkg", "pip", "python", "py", "npm", "node", "git", "bash",
            "termux-battery-status", "termux-notification",
            "termux-setup-storage", "speedtest", "nmap", "openvpn", "sqlmap",
            "hydra", "git-lfs", "neofetch"} |->
        IF k \in {"py", "pip"} THEN "python" ELSE k]
CANONICAL_COMMANDS ==
    [k \in {"apt", "pkg", "pip", "python", "py", "npm", "node", "git", "bash",
            "termux-battery-status", "termux-notification",
            "termux-setup-storage", "speedtest", "nmap", "openvpn", "sqlmap",
            "hydra", "git-lfs", "neofetch"} |->
        IF k = "py" THEN "python" ELSE k]

COMMON_TOKEN_CORRECTIONS ==
    ( "updata" :> "update" @@ "updat" :> "update" @@ "upgarde" :> "upgrade"
   @@ "upgrde" :> "upgrade" @@ "instal" :> "install" @@ "insatll" :> "install"
   @@ "intall" :> "install" @@ "pul" :> "pull" @@ "pll" :> "pull"
   @@ "clne" :> "clone" @@ "cloner" :> "clone" @@ "insall" :> "install"
   @@ "sorit" :> "source" @@ "soruce" :> "source" @@ "pyhton" :> "python"
   @@ "termux-battry-status" :> "termux-battery-status"
   @@ "termux-notificaton" :> "termux-notification"
   @@ "speedet" :> "speedtest" @@ "sqlmpa" :> "sqlmap" @@ "hydar" :> "hydra"
   @@ "openvnp" :> "openvpn" @@ "clera" :> "clear" @@ "lsa" :> "ls -a" )

TokenChoices == DOMAIN CANONICAL_COMMANDS \cup DOMAIN COMMON_TOKEN_CORRECTIONS

smart_fix_token_identity(token) == token
smart_fix_token(token) ==
    IF token \in DOMAIN COMMON_TOKEN_CORRECTIONS THEN COMMON_TOKEN_CORRECTIONS[token]
    ELSE IF token \in DOMAIN CANONICAL_COMMANDS THEN CANONICAL_COMMANDS[token]
    ELSE LET match == get_close_matches(token, TokenChoices, TOKEN_CUTOFF)
         IN  IF match # {}
             THEN LET m == CHOOSE x \in match : TRUE
                  IN  IF m \in DOMAIN CANONICAL_COMMANDS THEN CANONICAL_COMMANDS[m]
                      ELSE COMMON_TOKEN_CORRECTIONS[m]
             ELSE token

\* the tokens after the first that autocorrect_command leaves alone
Protected(token) ==
    \/ StartsWith(token, "-") \/ HasCh(token, "/")
    \/ HasCh(token, "=") \/ StartsWith(token, "$")

\* local variable parts of autocorrect_command after its loop: parts[0] is
\* always given to smart_fix_token
FixParts(parts) ==
    [i \in 1..Len(parts) |->
        TheOne({IF i = 1 THEN smart_fix_token(token)
                ELSE IF Protected(token) THEN token
                ELSE smart_fix_token(token) : token \in {parts[i]}})]

\* values of AUTO_CORRECT_MODE ("auto" stands for any unknown value)
Modes == {"silent", "ask", "ai", "auto"}

\* what input() gives: a line, or an exception (readable = FALSE)
NoReply == [readable |-> FALSE, text |-> ""]
Replies == {NoReply} \cup
           {[readable |-> TRUE, text |-> t] : t \in {"y", "yes", " Yes ", "Y", "", "n", "m", "ye", "yes please"}}

ConfirmsUnlessNo(reply) == reply.readable /\ Lower(Strip(reply.text)) \notin {"n", "no", ""}
Confirms(reply) == reply.readable /\ Lower(Strip(reply.text)) \in {"y", "yes"}

\* smart_fix_token applied to one token, then to its own result
FixToken(token) ==
    /\ ftoken = "" /\ token # ""
    /\ ftoken' = token
    /\ ffixed' = smart_fix_token(token)
    /\ ftwice' = ""

FixAgain ==
    /\ ftoken # "" /\ ftwice = ""
    /\ ftwice' = smart_fix_token(ffixed)
    /\ UNCHANGED <<ftoken, ffixed>>

FixDone ==
    /\ ftwice # ""
    /\ ftoken' = "" /\ ffixed' = "" /\ ftwice' = ""

\* a record written with log(): its wording, and the commands it quotes
\* ("" for none)
ALog(what, before, after) == [what |-> what, before |-> before, after |-> after]

\* autocorrect_command up to its return or its input() call
ACall(cmd, mode) ==
    /\ apc = "idle"
    /\ acmd' = cmd /\ amode' = mode /\ areply' = NoReply
    /\ \E original \in {Strip(cmd)} :
       \E parts \in {FixParts(Split(original))} :
       \E corrected \in {Join(parts)} :
           IF original = ""
           THEN /\ aparts' = <<>> /\ ashown' = "" /\ aout' = cmd /\ apc' = "returned"
                /\ alog' = <<>>
           ELSE /\ aparts' = parts
                /\ IF corrected = original
                   THEN ashown' = "" /\ aout' = cmd /\ apc' = "returned" /\ alog' = <<>>
                   ELSE IF mode \in {"ask", "ai"}
                   THEN ashown' = corrected /\ aout' = "" /\ apc' = "input" /\ alog' = <<>>
                   ELSE /\ ashown' = "" /\ aout' = corrected /\ apc' = "returned"
                        /\ alog' = IF mode = "silent"
                                   THEN <<ALog("corrected (silent)", original, corrected)>>
                                   ELSE <<ALog("unknown AUTO_CORRECT_MODE", "", ""),
                                          ALog("corrected (default)", original, corrected)>>

\* the operator's answer to the prompt of ask / ai mode
AReply(reply) ==
    /\ apc = "input"
    /\ areply' = reply
    /\ aout' = IF Confirms(reply) THEN ashown ELSE Strip(acmd)
    /\ alog' = IF Confirms(reply) THEN <<ALog("user-approved", Strip(acmd), ashown)>>
               ELSE IF reply.readable /\ ~(amode = "ai" /\ Lower(Strip(reply.text)) = "m")
               THEN <<ALog("user-declined", Strip(acmd), "")>>
               ELSE IF reply.readable THEN <<>>
               ELSE <<ALog("could not prompt", Strip(acmd), "")>>
    /\ apc' = "returned"
    /\ UNCHANGED <<acmd, amode, aparts, ashown>>

\* the caller takes the returned command
AReturn ==
    /\ apc = "returned"
    /\ apc' = "idle" /\ acmd' = "" /\ amode' = "silent" /\ areply' = NoReply
    /\ aparts' = <<>> /\ ashown' = "" /\ aout' = "" /\ alog' = <<>>

-----------------------------------------------------------------------------
(* pkg_search_candidates                                                   *)

\* what subprocess.run did: raised (TimeoutExpired, OSError), or returned
\* with an exit status and the lines of stdout
NoRun == [raised |-> FALSE, rc |-> 0, stdout |-> <<>>]

\* uniq: the first occurrence of every candidate, in order
Uniq(candidates) ==
    SelectSeq([i \in 1..Len(candidates) |->
                  IF \E j \in 1..(i - 1) : candidates[j] = candidates[i]
                  THEN "" ELSE candidates[i]],
              LAMBDA c : c # "")

\* the list pkg_search_candidates returns: the first word of every line of
\* stdout that is not blank; [] when subprocess.run raised
FirstWords(run) ==
    IF run.raised THEN <<>>
    ELSE TheOne({Uniq([i \in 1..Len(lines) |-> Split(lines[i])[1]]) :
                 lines \in {SelectSeq(run.stdout, LAMBDA L : Strip(L) # "")}})

\* choose_best_package: the best match at or above cutoff, "" for None
choose_first_package(name, candidates, cutoff) ==
    IF Len(candidates) = 0 THEN ""
    ELSE LET match == get_close_matches(name, {candidates[i] : i \in 1..Len(candidates)}, cutoff)
         IN  IF match # {} THEN candidates[1] ELSE ""
choose_best_package(name, candidates, cutoff) ==
    IF Len(candidates) = 0 THEN ""
    ELSE LET match == get_close_matches(name, {candidates[i] : i \in 1..Len(candidates)}, cutoff)
         IN  IF match # {} THEN CHOOSE x \in match : TRUE ELSE ""

\* one call of pkg_search_candidates
SCall(run) ==
    /\ s_pc = "idle" /\ g_pc = "idle"
    /\ s_run' = run
    /\ \E uniq \in {FirstWords(run)} : s_out' = uniq
    /\ s_pc' = "returned"
    /\ UNCHANGED <<s_name, s_cutoff, s_best>>
    /\ UNCHANGED <<g_pc, per_page, max_total, results, fetched, page, g_log, g_out>>

\* best = choose_best_package(name, cands, cutoff) on the list returned
SChoose(name, cutoff) ==
    /\ s_pc = "returned"
    /\ s_name' = name /\ s_cutoff' = cutoff
    /\ \E best \in {choose_best_package(name, s_out, cutoff)} : s_best' = best
    /\ s_pc' = "chosen"
    /\ UNCHANGED <<s_run, s_out>>
    /\ UNCHANGED <<g_pc, per_page, max_total, results, fetched, page, g_log, g_out>>

SReturn ==
    /\ s_pc \in {"returned", "chosen"}
    /\ s_pc' = "idle" /\ s_run' = NoRun /\ s_out' = <<>>
    /\ s_name' = "" /\ s_cutoff' = 0 /\ s_best' = ""
    /\ UNCHANGED <<g_pc, per_page, max_total, results, fetched, page, g_log, g_out>>

-----------------------------------------------------------------------------
(* search_github_repos                                                     *)

\* what one curl call gives: an exception of subprocess.run ("timeout"), a
\* non-zero exit status ("rc"), text json.loads rejects ("malformed"), JSON
\* that is no object ("notdict"), or an object ("items") whose items list
\* says for each item whether it has full_name and html_url
Resp(kind, items) == [kind |-> kind, items |-> items]

\* indices of the items of a page appended to results: those with both
\* fields, up to the one that makes fetched reach max_total
KeptNoCap(items, room) ==
    SelectSeq([i \in 1..Len(items) |-> IF items[i] THEN i ELSE 0], LAMBDA i : i # 0)
Kept(items, room) ==
    LET valid == SelectSeq([i \in 1..Len(items) |-> IF items[i] THEN i ELSE 0],
                           LAMBDA i : i # 0)
    IN  IF Len(valid) > room THEN SubSeq(valid, 1, room) ELSE valid

GCall(pp, mt) ==
    /\ g_pc = "idle" /\ s_pc = "idle"
    /\ per_page' = pp /\ max_total' = mt
    /\ results' = <<>> /\ fetched' = 0 /\ page' = 1 /\ g_log' = <<>>
    /\ g_out' = <<>>
    /\ g_pc' = IF 0 < mt THEN "loop" ELSE "returned"
    /\ UNCHANGED <<s_pc, s_run, s_out, s_name, s_cutoff, s_best>>

\* one round of the while loop: one curl call and what follows it
GPage(resp) ==
    /\ g_pc = "loop" /\ page <= MaxPages
    /\ Len(resp.items) <= per_page
    /\ g_log' = Append(g_log, resp)
    /\ IF resp.kind \in {"timeout", "notdict"}
       THEN /\ g_out' = <<>> /\ g_pc' = "returned"
            /\ UNCHANGED <<results, fetched, page>>
       ELSE IF resp.kind \in {"rc", "malformed"} \/ Len(resp.items) = 0
       THEN /\ g_out' = results /\ g_pc' = "returned"
            /\ UNCHANGED <<results, fetched, page>>
       ELSE \E kept \in {Kept(resp.items, max_total - fetched)} :
            \E grown \in {results \o [i \in 1..Len(kept) |-> <<page, kept[i]>>]} :
               /\ results' = grown
               /\ fetched' = fetched + Len(kept)
               /\ IF Len(resp.items) < per_page
                  THEN page' = page /\ g_out' = grown /\ g_pc' = "returned"
                  ELSE /\ page' = page + 1
                       /\ IF fetched + Len(kept) < max_total
                          THEN g_out' = <<>> /\ g_pc' = "loop"
                          ELSE g_out' = grown /\ g_pc' = "returned"
    /\ UNCHANGED <<s_pc, s_run, s_out, s_name, s_cutoff, s_best, per_page, max_total>>

GReturn ==
    /\ g_pc = "returned"
    /\ g_pc' = "idle" /\ per_page' = 0 /\ max_total' = 0 /\ results' = <<>>
    /\ fetched' = 0 /\ page' = 0 /\ g_log' = <<>> /\ g_out' = <<>>
    /\ UNCHANGED <<s_pc, s_run, s_out, s_name, s_cutoff, s_best>>

-----------------------------------------------------------------------------
(* interactive_candidates_menu                                             *)
Digits == "0123456789"

RECURSIVE DecVal(_)
DecVal(s) ==
    IF Len(s) = 0 THEN 0
    ELSE 10 * DecVal(SubSeq(s, 1, Len(s) - 1)) + (FindCh(Digits, Ch(s, Len(s))) - 1)

\* int(s): blanks around the numeral and a sign are accepted, anything else
\* raises ValueError (ok = FALSE)
int_of(s) ==
    LET t == Strip(s)
        signed == StartsWith(t, "-") \/ StartsWith(t, "+")
        body == IF signed THEN SubSeq(t, 2, Len(t)) ELSE t
    IN  IF Len(body) > 0 /\ \A i \in 1..Len(body) : HasCh(Digits, Ch(body, i))
        THEN [ok |-> TRUE, val |-> IF StartsWith(t, "-") THEN 0 - DecVal(body) ELSE DecVal(body)]
        ELSE [ok |-> FALSE, val |-> 0]

\* what the menu shows: pkg candidates first, then the GitHub candidates
mappingPkgOnly(p, g) == [n \in 1..Len(p) |-> <<"pkg", p[n]>>]
mapping(p, g) ==
    [n \in 1..(Len(p) + Len(g)) |->
        IF n <= Len(p) THEN <<"pkg", p[n]>> ELSE <<"git", g[n - Len(p)].url>>]

\* the keys of mapping met by range(a, b + 1), in order
RangeKeysExclusive(a, b, size) ==
    LET lo == IF a < 1 THEN 1 ELSE a
        hi == IF b - 1 > size THEN size ELSE b - 1
    IN  IF lo > hi THEN <<>> ELSE [i \in 1..(hi - lo + 1) |-> lo + i - 1]
RangeKeys(a, b, size) ==
    LET lo == IF a < 1 THEN 1 ELSE a
        hi == IF b > size THEN size ELSE b
    IN  IF lo > hi THEN <<>> ELSE [i \in 1..(hi - lo + 1) |-> lo + i - 1]

\* the keys one part of the selection adds to chosen
PartKeys(part, size) ==
    IF HasCh(part, "-")
    THEN LET k == FindCh(part, "-")
             a == int_of(SubSeq(part, 1, k - 1))
             b == int_of(SubSeq(part, k + 1, Len(part)))
         IN  IF a.ok /\ b.ok THEN RangeKeys(a.val, b.val, size) ELSE <<>>
    ELSE LET n == int_of(part)
         IN  IF n.ok /\ n.val \in 1..size THEN <<n.val>> ELSE <<>>

\* parts = [s.strip() for s in sel.split(",") if s.strip()]
SelParts(s) ==
    TheOne({SelectSeq([i \in DOMAIN raw |-> Strip(raw[i])], LAMBDA part : part # "") :
            raw \in {SplitOn(s, ",")}})

RECURSIVE KeysOf(_, _)
KeysOf(parts, size) ==
    IF Len(parts) = 0 THEN <<>>
    ELSE TheOne({PartKeys(part, size) : part \in {Head(parts)}}) \o KeysOf(Tail(parts), size)

\* what the menu returns for the line typed at its prompt (lines 400-425)
interactive_candidates_menu(p, g, line) ==
    TheOne({IF s = "" \/ s = "q" THEN <<>>
            ELSE IF s = "a" THEN mapping(p, g)
            ELSE TheOne({[i \in 1..Len(keys) |-> mapping(p, g)[keys[i]]] :
                         keys \in {KeysOf(SelParts(s), Len(p) + Len(g))}}) :
            s \in {Lower(Strip(line))}})

\* the menu is printed; without candidates it returns at once
MShow(p, g) ==
    /\ menu_pc = "idle"
    /\ pkg_cands' = p /\ gh_cands' = g
    /\ sel' = "" /\ chosen' = <<>>
    /\ menu_pc' = IF Len(p) + Len(g) = 0 THEN "returned" ELSE "input"

\* the selection is read and applied
MSelect(line) ==
    /\ menu_pc = "input"
    /\ sel' = Lower(Strip(line))
    /\ \E picked \in {interactive_candidates_menu(pkg_cands, gh_cands, line)} :
          chosen' = picked
    /\ menu_pc' = "returned"
    /\ UNCHANGED <<pkg_cands, gh_cands>>

\* input() raises (no terminal): the exception leaves the function
MInputFails ==
    /\ menu_pc = "input"
    /\ menu_pc' = "raised"
    /\ UNCHANGED <<pkg_cands, gh_cands, sel, chosen>>

\* the caller goes on
MReturn ==
    /\ menu_pc \in {"returned", "raised"}
    /\ menu_pc' = "idle" /\ pkg_cands' = <<>> /\ gh_cands' = <<>>
    /\ sel' = "" /\ chosen' = <<>>

-----------------------------------------------------------------------------
(* prepare_command_for_run and the package-name resolution                 *)

\* autocorrect_command as a function of the command, the mode and the
\* answer input() gives when it is called
autocorrect_command(cmd, mode, reply) ==
    LET Decide(original, corrected) ==
            IF original = "" \/ corrected = original THEN cmd
            ELSE IF mode \in {"ask", "ai"}
            THEN (IF Confirms(reply) THEN corrected ELSE original)
            ELSE corrected
        Correct(original) ==
            TheOne({Decide(original, Join(parts)) : parts \in {FixParts(Split(original))}})
    IN  TheOne({Correct(original) : original \in {Strip(cmd)}})

\* pkg_search_candidates(name) in a given state of the package index
Found(env, name) == IF name \in DOMAIN env.found THEN env.found[name] ELSE <<>>

\* search_github_repos(name): one repository for the names in env.gh
GhFound(env, name) ==
    IF name \in env.gh
    THEN <<[full |-> name \o "/" \o name, url |-> "https://github.com/" \o name \o "/" \o name]>>
    ELSE <<>>

\* chosen of resolve_pkg_interactive in ask / ai mode: what the operator
\* takes from the menu shown for the token; the operator types "1" for the
\* tokens in env.picks and env.cancel for the others
ChosenFor(ptoken, env) ==
    IF ptoken \in env.installed THEN <<>>
    ELSE TheOne({IF Len(p) + Len(g) = 0 THEN <<>>
                 ELSE interactive_candidates_menu(p, g,
                          IF ptoken \in env.picks THEN "1" ELSE env.cancel) :
                 p \in {Found(env, ptoken)},
                 g \in {IF env.mode = "ai" THEN GhFound(env, ptoken) ELSE <<>>}})

\* resolve_pkg_interactive in ask / ai mode: TRUE when the token is
\* installed already, or the operator picked something from the menu
resolve_pkg_interactive(ptoken, env) ==
    \/ ptoken \in env.installed
    \/ ChosenFor(ptoken, env) # <<>>

\* the actions run_chosen_actions runs for one package token
RunFor(ptoken, env) ==
    IF HasCh(ptoken, "/") \/ StartsWith(ptoken, "http") \/ env.mode \notin {"ask", "ai"}
    THEN <<>>
    ELSE TheOne({[j \in 1..Len(c) |-> [for |-> ptoken, typ |-> c[j][1], val |-> c[j][2]]] :
                 c \in {ChosenFor(ptoken, env)}})

\* fixed_tokens of prepare_command_for_run: what one package token adds
FixedTokenAnyMode(ptoken, env) ==
    IF HasCh(ptoken, "/") \/ StartsWith(ptoken, "http") THEN <<ptoken>>
    ELSE IF env.mode \in {"ask", "ai"} /\ resolve_pkg_interactive(ptoken, env) THEN <<>>
    ELSE IF ptoken \in env.installed THEN <<ptoken>>
    ELSE LET best == choose_best_package(ptoken, Found(env, ptoken), PKG_NAME_CONFIDENCE)
         IN  IF best # "" THEN <<best>> ELSE <<ptoken>>
FixedToken(ptoken, env) ==
    IF HasCh(ptoken, "/") \/ StartsWith(ptoken, "http") THEN <<ptoken>>
    ELSE IF env.mode \in {"ask", "ai"} /\ resolve_pkg_interactive(ptoken, env) THEN <<>>
    ELSE IF ptoken \in env.installed THEN <<ptoken>>
    ELSE LET best == choose_best_package(ptoken, Found(env, ptoken), PKG_NAME_CONFIDENCE)
         IN  IF best # "" /\ env.mode = "silent" THEN <<best>> ELSE <<ptoken>>

RECURSIVE FixedTokens(_, _)
FixedTokens(pkg_tokens, env) ==
    IF Len(pkg_tokens) = 0 THEN <<>>
    ELSE TheOne({FixedToken(ptoken, env) : ptoken \in {Head(pkg_tokens)}})
         \o FixedTokens(Tail(pkg_tokens), env)

\* inst_idx and after_idx of prepare_command_for_run, counted from 1;
\* inst_idx = 0 when the command is left as it is (lines 524-537, 585)
InstallSpan(parts) ==
    LET at == {i \in 1..Len(parts) : parts[i] \in {"install", "i"}}
        inst_idx == IF at = {} THEN 0 ELSE MinOf(at)
        flags == {i \in (inst_idx + 1)..Len(parts) : StartsWith(parts[i], "-")}
        after_idx == IF flags = {} THEN Len(parts) + 1 ELSE MinOf(flags)
    IN  IF Len(parts) = 0 THEN [inst_idx |-> 0, after_idx |-> 0]
        ELSE IF parts[1] \notin {"pkg", "apt"} THEN [inst_idx |-> 0, after_idx |-> 0]
        ELSE IF inst_idx = 0 \/ inst_idx >= Len(parts) THEN [inst_idx |-> 0, after_idx |-> 0]
        ELSE [inst_idx |-> inst_idx, after_idx |-> after_idx]

\* pkg_tokens of prepare_command_for_run (lines 538-543)
PkgTokens(corrected) ==
    TheOne({TheOne({IF span.inst_idx = 0 THEN <<>>
                    ELSE SubSeq(parts, span.inst_idx + 1, span.after_idx - 1) :
                    span \in {InstallSpan(parts)}}) :
            parts \in {Split(corrected)}})

\* prepare_command_for_run after its call of autocorrect_command (line 522),
\* which returned corrected
RewriteInstall(corrected, env) ==
    LET Rebuild(parts, span) ==
            IF span.inst_idx = 0 THEN corrected
            ELSE TheOne({Join(SubSeq(parts, 1, span.inst_idx) \o fixed_tokens
                              \o SubSeq(parts, span.after_idx, Len(parts))) :
                         fixed_tokens \in {FixedTokens(SubSeq(parts, span.inst_idx + 1,
                                                              span.after_idx - 1), env)}})
    IN  TheOne({TheOne({Rebuild(parts, span) : span \in {InstallSpan(parts)}}) :
                parts \in {Split(corrected)}})

\* the actions run_chosen_actions has run when prepare_command_for_run returns
RECURSIVE RunActions(_, _)
RunActions(pkg_tokens, env) ==
    IF Len(pkg_tokens) = 0 THEN <<>>
    ELSE TheOne({RunFor(ptoken, env) : ptoken \in {Head(pkg_tokens)}})
         \o RunActions(Tail(pkg_tokens), env)

prepare_command_for_run(cmd, env, reply) ==
    TheOne({RewriteInstall(corrected, env) : corrected \in {autocorrect_command(cmd, env.mode, reply)}})

\* the environment before any call
NoEnv == [mode |-> "silent", installed |-> {}, found |-> <<>>, gh |-> {}, picks |-> {},
          cancel |-> "q"]

\* one call of prepare_command_for_run; corrected is what its call of
\* autocorrect_command returned
PCall(cmd, corrected, env) ==
    /\ prep_pc = "idle"
    /\ prep_cmd' = cmd /\ prep_env' = env
    /\ prep_corrected' = corrected
    /\ \E out \in {RewriteInstall(corrected, env)} : prep_out' = out
    /\ \E ran \in {RunActions(PkgTokens(corrected), env)} : prep_ran' = ran
    /\ prep_pc' = "returned"

PReturn ==
    /\ prep_pc = "returned"
    /\ prep_pc' = "idle" /\ prep_cmd' = "" /\ prep_env' = NoEnv
    /\ prep_corrected' = "" /\ prep_out' = "" /\ prep_ran' = <<>>

-----------------------------------------------------------------------------
(* install_packages                                                        *)
\* the static list PKGS of install_packages
PKGS ==
    << "coreutils", "util-linux", "ncurses-utils", "termux-api", "termux-keyring",
       "curl", "wget", "git", "tree", "neofetch", "tsu", "tmux", "screen", "nano", "vim",
       "python", "python2", "clang", "make", "gdb", "php", "ruby", "perl",
       "nodejs", "golang", "rust", "lua",
       "openjdk-17", "sqlite", "yasm", "cmake", "pkg-config", "git-lfs",
       "nmap", "ncat", "dnsutils", "traceroute", "mtr", "whois", "tcpdump", "openssl", "iproute2",
       "inetutils", "openvpn", "tor", "torsocks", "proxychains-ng", "hydra", "sqlmap", "metasploit", "iperf3",
       "jq", "iw", "speedtest-cli", "speedtest",
       "cmatrix", "cowsay", "figlet", "toilet", "lolcat", "screenfetch", "ranger", "htop",
       "lynx", "w3m", "httrack", "aria2", "lftp",
       "zsh", "fish", "starship", "fd", "ripgrep", "bat", "fzf", "mc", "tree-sitter",
       "sed", "grep", "gawk", "findutils", "tar", "gzip", "bzip2", "xz-utils", "p7zip", "diffutils", "zip", "unzip",
       "ncdu", "pv", "curlftpfs", "clang-dev", "man", "man-pages", "lazygit", "silversearcher-ag" >>

\* the part of PKGS the loop of install_packages runs over in the model
PkgList == SubSeq(PKGS, 16, 15 + NumPkgs)

\* the log file named in the commands
LOGFILE == "/root/termux-full-setup.log"

\* raw_cmd of the install loop (shlex.quote leaves these names as they are)
raw_cmd(pkg) == "pkg install -y " \o pkg \o " 2>&1 | tee -a " \o LOGFILE

\* the best-effort steps after the loop: the program they need on PATH
\* ("" for none), and their command
PostSteps ==
    << [need |-> "python", cmd |-> "python -m pip install --upgrade pip 2>&1 | tee -a " \o LOGFILE],
       [need |-> "python", cmd |-> "python -m pip install speedtest-cli --upgrade 2>&1 | tee -a " \o LOGFILE],
       [need |-> "npm", cmd |-> "npm install -g fast-cli 2>&1 | tee -a " \o LOGFILE],
       [need |-> "gem", cmd |-> "gem install lolcat 2>&1 | tee -a " \o LOGFILE],
       [need |-> "", cmd |-> "termux-setup-storage 2>&1 | tee -a " \o LOGFILE] >>

ILog(step, name, cmd, attempts, ok) ==
    [step |-> step, name |-> name, cmd |-> cmd, attempts |-> attempts, ok |-> ok]

\* the state of the packages as prepare_command_for_run sees it
InstEnv == [mode |-> "silent", installed |-> pkgs_installed, found |-> inst_found,
            gh |-> {}, picks |-> {}, cancel |-> "q"]

\* main calls install_packages, which returns at once without pkg on PATH
IStart(path, have, found) ==
    /\ inst_pc = "idle"
    /\ on_path' = path /\ pkgs_installed' = have /\ inst_found' = found
    /\ pkg_i' = 0 /\ post_i' = 0 /\ inst_log' = <<>>
    /\ inst_pc' = IF "pkg" \in path THEN "update" ELSE "helpers"

\* pkg update and pkg upgrade, best effort
IUpdate(ok) ==
    /\ inst_pc = "update"
    /\ inst_log' = Append(inst_log, ILog("update", "", "pkg update -y | tee -a " \o LOGFILE, 1, ok))
    /\ inst_pc' = IF NumPkgs = 0 THEN "post" ELSE "loop"
    /\ UNCHANGED <<on_path, pkgs_installed, inst_found, pkg_i, post_i>>

\* where the loop goes after run_with_retry returned (ok) or raised
AfterInstallRaises(ok) == IF ok THEN "loop" ELSE "helpers"
AfterInstall(ok) == "loop"

\* one round of the loop over PKGS; run_with_retry succeeds at attempt k,
\* or fails MAX_RETRIES times and raises (k = 0)
IPackage ==
    /\ inst_pc = "loop"
    /\ pkg_i' = pkg_i + 1
    /\ LET pkg == PkgList[pkg_i + 1]
           next == IF pkg_i + 1 = Len(PkgList) THEN "post" ELSE "loop"
       IN  IF pkg \in pkgs_installed
           THEN /\ inst_log' = Append(inst_log, ILog("skip", pkg, "", 0, TRUE))
                /\ inst_pc' = next
                /\ UNCHANGED <<pkgs_installed, on_path>>
           ELSE \E prepared \in {prepare_command_for_run(raw_cmd(pkg), InstEnv, NoReply)} :
                \E name \in {Split(prepared)[4]}, k \in {0, 1, MAX_RETRIES} :
                /\ inst_log' = Append(inst_log,
                       ILog("pkg", pkg, prepared, IF k = 0 THEN MAX_RETRIES ELSE k, k # 0))
                /\ inst_pc' = IF AfterInstall(k # 0) = "loop" THEN next ELSE AfterInstall(k # 0)
                /\ pkgs_installed' = IF k # 0 THEN pkgs_installed \cup {name} ELSE pkgs_installed
                /\ on_path' = IF k # 0 /\ name = "python"
                              THEN on_path \cup {"python"} ELSE on_path
    /\ UNCHANGED <<inst_found, post_i>>

\* the next best-effort step: skipped without its program, and a failure
\* is logged only
IPost(ok) ==
    /\ inst_pc = "post"
    /\ post_i' = post_i + 1
    /\ LET step == PostSteps[post_i + 1]
       IN  inst_log' = IF step.need = "" \/ step.need \in on_path
                       THEN Append(inst_log, ILog("post", step.need, step.cmd, 1, ok))
                       ELSE inst_log
    /\ inst_pc' = IF post_i + 1 = Len(PostSteps) THEN "helpers" ELSE "post"
    /\ UNCHANGED <<on_path, pkgs_installed, inst_found, pkg_i>>

\* main creates the helper scripts; an exception is logged only
IHelpers(ok) ==
    /\ inst_pc = "helpers"
    /\ inst_log' = Append(inst_log, ILog("helpers", "", "", 1, ok))
    /\ inst_pc' = "done"
    /\ UNCHANGED <<on_path, pkgs_installed, inst_found, pkg_i, post_i>>

-----------------------------------------------------------------------------
(* Specifications                                                          *)

ToolIdle ==
    /\ tpc = "off" /\ toolList = <<>> /\ idx = 0 /\ dirs = [n \in Tools |-> Absent]
    /\ backups = <<>> /\ backup_file = 0 /\ pre = Absent /\ tlog = <<>>
    /\ processed = {} /\ exitCode = -1 /\ listExists = FALSE

RetryIdle ==
    /\ pc = "idle"
    /\ max_retries = 0 /\ timeout = 0 /\ base_backoff = 0
    /\ selfUpdateOk = FALSE /\ attempt = 0 /\ last_exc = NoArg
    /\ result = NoArg /\ events = <<>>

LockIdle ==
    /\ lockfile = FALSE
    /\ mpc = [p \in Procs |-> "idle"]
    /\ owner = [p \in Procs |-> FALSE]
    /\ mtool = [p \in Procs |-> 0]

\* nothing of the auto-correct engine or the menu has been called
MoreIdle ==
    /\ ftoken = "" /\ ffixed = "" /\ ftwice = ""
    /\ apc = "idle" /\ acmd = "" /\ amode = "silent" /\ aparts = <<>>
    /\ ashown = "" /\ areply = NoReply /\ aout = "" /\ alog = <<>>
    /\ menu_pc = "idle" /\ pkg_cands = <<>> /\ gh_cands = <<>>
    /\ sel = "" /\ chosen = <<>>
    /\ prep_pc = "idle" /\ prep_cmd = "" /\ prep_env = NoEnv
    /\ prep_corrected = "" /\ prep_out = "" /\ prep_ran = <<>>
    /\ inst_pc = "idle" /\ on_path = {} /\ pkgs_installed = {} /\ inst_found = <<>>
    /\ pkg_i = 0 /\ post_i = 0 /\ inst_log = <<>>
    /\ s_pc = "idle" /\ s_run = NoRun /\ s_out = <<>>
    /\ s_name = "" /\ s_cutoff = 0 /\ s_best = ""
    /\ g_pc = "idle" /\ per_page = 0 /\ max_total = 0 /\ results = <<>>
    /\ fetched = 0 /\ page = 0 /\ g_log = <<>> /\ g_out = <<>>

InitIdle == RetryIdle /\ ToolIdle /\ LockIdle /\ MoreIdle

InitRetry == RetryIdle /\ ToolIdle /\ LockIdle /\ MoreIdle

NextRetry ==
    \/ \E m \in RetryChoices, t \in TimeoutChoices, b \in BaseChoices, s \in BOOLEAN :
           Call(m, t, b, s) /\ UNCHANGED <<toolVars, lockVars, moreVars>>
    \/ \E l \in BOOLEAN, d \in Durations, rc \in {0, 1} :
           Attempt(l, d, rc) /\ UNCHANGED <<toolVars, lockVars, moreVars>>
    \/ \E r \in {"ok", "nonzero", "raise"} :
           Recover(r) /\ UNCHANGED <<toolVars, lockVars, moreVars>>
    \/ Sleep /\ UNCHANGED <<toolVars, lockVars, moreVars>>
    \/ RaiseExhausted /\ UNCHANGED <<toolVars, lockVars, moreVars>>

SpecRetry == InitRetry /\ [][NextRetry]_vars

\* a tool directory before the run: missing, a git checkout, or a plain
\* directory (installed from url+)
InitialDirs == {Absent, Content(0, TRUE, "absent", "absent", FALSE),
                Content(0, FALSE, "absent", "absent", FALSE)}

InitTool ==
    /\ RetryIdle /\ LockIdle /\ MoreIdle
    /\ tpc = "start"
    /\ listExists \in BOOLEAN
    /\ toolList \in (IF listExists THEN ToolLists ELSE {<<>>})
    /\ idx = 0
    /\ dirs \in [Tools -> InitialDirs]
    /\ backups = <<>> /\ backup_file = 0 /\ pre = Absent /\ tlog = <<>>
    /\ processed = {} /\ exitCode = -1

NextTool ==
    \/ TStart /\ UNCHANGED <<retryVars, lockVars, moreVars>>
    \/ TRead /\ UNCHANGED <<retryVars, lockVars, moreVars>>
    \/ \E tarOk \in BOOLEAN : TBackup(tarOk) /\ UNCHANGED <<retryVars, lockVars, moreVars>>
    \/ \E k \in 0..TOOL_MAX_TRIES, sc \in ScriptCombos, h \in BOOLEAN :
           TPull(k, sc, h) /\ UNCHANGED <<retryVars, lockVars, moreVars>>
    \/ THealth /\ UNCHANGED <<retryVars, lockVars, moreVars>>
    \/ \E x \in {"ok", "partial", "empty"} :
           TRollback(x) /\ UNCHANGED <<retryVars, lockVars, moreVars>>
    \/ \E k \in 0..TOOL_MAX_TRIES, sc \in ScriptCombos :
           TClone(k, sc) /\ UNCHANGED <<retryVars, lockVars, moreVars>>
    \/ \E f \in BOOLEAN, k \in 0..TOOL_MAX_TRIES, sc \in ScriptCombos :
           TDownload(f, k, sc) /\ UNCHANGED <<retryVars, lockVars, moreVars>>

SpecTool == InitTool /\ [][NextTool]_vars

InitLock == RetryIdle /\ ToolIdle /\ LockIdle /\ MoreIdle

NextLock ==
    \/ \E p \in Procs : MOpenShell(p) /\ UNCHANGED <<retryVars, toolVars, moreVars>>
    \/ \E p \in Procs : MCheckLock(p) /\ UNCHANGED <<retryVars, toolVars, moreVars>>
    \/ \E p \in Procs : MTouch(p) /\ UNCHANGED <<retryVars, toolVars, moreVars>>
    \/ \E p \in Procs, low \in BOOLEAN : MBattery(p, low) /\ UNCHANGED <<retryVars, toolVars, moreVars>>
    \/ \E p \in Procs : MSelfUpdate(p) /\ UNCHANGED <<retryVars, toolVars, moreVars>>
    \/ \E p \in Procs, x \in BOOLEAN : MToolManager(p, x) /\ UNCHANGED <<retryVars, toolVars, moreVars>>
    \/ \E p \in Procs, a \in BOOLEAN : MToolStep(p, a) /\ UNCHANGED <<retryVars, toolVars, moreVars>>
    \/ \E p \in Procs : MAbort(p) /\ UNCHANGED <<retryVars, toolVars, moreVars>>
    \/ \E p \in Procs : MFinish(p) /\ UNCHANGED <<retryVars, toolVars, moreVars>>

SpecLock == InitLock /\ [][NextLock]_vars

\* ---- smart_fix_token on its own ----
\* tokens given to smart_fix_token: the keys and values of both tables, the
\* package names install_packages puts into commands, and other words
FixInputs ==
    TokenChoices
    \cup {CANONICAL_COMMANDS[k] : k \in DOMAIN CANONICAL_COMMANDS}
    \cup {COMMON_TOKEN_CORRECTIONS[k] : k \in DOMAIN COMMON_TOKEN_CORRECTIONS}
    \cup {PKGS[i] : i \in 1..Len(PKGS)}
    \cup {"nmpa", "pgk", "gti", "instll", "updte", "./nmap", "-git", "git=",
          "$git", "-y", "$HOME", "2>&1", "|", "tee", "host", "ls"}

NextFix ==
    \/ \E t \in FixInputs : FixToken(t)
           /\ UNCHANGED <<coreVars, corrVars, menuVars, prepVars, instVars, searchVars>>
    \/ FixAgain
           /\ UNCHANGED <<coreVars, corrVars, menuVars, prepVars, instVars, searchVars>>
    \/ FixDone
           /\ UNCHANGED <<coreVars, corrVars, menuVars, prepVars, instVars, searchVars>>

SpecFix == InitIdle /\ [][NextFix]_vars

\* ---- autocorrect_command ----
\* commands given to autocorrect_command: a first word, a second word and
\* further words, with or without extra blanks
CorrectInputs ==
    {"", "  "} \cup
    {lead \o h \o " " \o lead \o v \o (IF a = "" THEN "" ELSE " " \o a) \o lead :
        lead \in {"", " "},
        h \in {"pkg", "apt", "./nmap", "-git", "py", "lsa"},
        v \in {"install", "instal", "-y"},
        a \in {"", "nmpa", "-y nmpa", "-sV host", "python2", "A=updat"}}

NextCorrect ==
    \/ \E cmd \in CorrectInputs, mode \in Modes : ACall(cmd, mode)
           /\ UNCHANGED <<coreVars, fixVars, menuVars, prepVars, instVars, searchVars>>
    \/ \E reply \in Replies : AReply(reply)
           /\ UNCHANGED <<coreVars, fixVars, menuVars, prepVars, instVars, searchVars>>
    \/ AReturn
           /\ UNCHANGED <<coreVars, fixVars, menuVars, prepVars, instVars, searchVars>>

SpecCorrect == InitIdle /\ [][NextCorrect]_vars

\* ---- interactive_candidates_menu ----
PkgPool == <<"nmap", "ncat", "nmapsi4", "nmon", "nmh">>
GhPool  == << [full |-> "nmap/nmap", url |-> "https://github.com/nmap/nmap"],
              [full |-> "vulnersCom/nmap-vulners", url |-> "https://github.com/vulnersCom/nmap-vulners"],
              [full |-> "scipag/vulscan", url |-> "https://github.com/scipag/vulscan"],
              [full |-> "nmap/npcap", url |-> "https://github.com/nmap/npcap"] >>

PartChoices == {"1", "5", "6", "0", "x", "", "3-4", "2-9", "4-3", "-3",
                "1--3", " 2 ", "0-1", "1 - 2"}
SelChoices ==
    {"a", "A", "all", " All ", "q", " q ", " ", "1,2,3,4,5,6", "1,1-2"} \cup PartChoices
    \cup {x \o "," \o y : x \in PartChoices, y \in PartChoices}

NextMenu ==
    \/ \E np \in 0..MaxPkgHits, ng \in 0..MaxGhHits :
           MShow(SubSeq(PkgPool, 1, np), SubSeq(GhPool, 1, ng))
                  /\ UNCHANGED <<coreVars, fixVars, corrVars, prepVars, instVars, searchVars>>
    \/ \E line \in SelChoices : MSelect(line)
           /\ UNCHANGED <<coreVars, fixVars, corrVars, prepVars, instVars, searchVars>>
    \/ MInputFails
           /\ UNCHANGED <<coreVars, fixVars, corrVars, prepVars, instVars, searchVars>>
    \/ MReturn
           /\ UNCHANGED <<coreVars, fixVars, corrVars, prepVars, instVars, searchVars>>

SpecMenu == InitIdle /\ [][NextMenu]_vars

\* ---- prepare_command_for_run ----
\* what `pkg search` prints for a name, in three states of the package index
SearchWorlds ==
    { <<>>,
      ("htpo" :> <<"htop", "htop-legacy">>) @@ ("nmpa" :> <<"nmap", "ncat">>)
         @@ ("python2" :> <<"python", "python2", "python-pip">>),
      ("htpo" :> <<"hping3">>) @@ ("htop" :> <<"htop">>) @@ ("zzz" :> <<"zziplib">>) }

PrepareInputs ==
    {"", "git pull", "pkg update -y", "pkg install", "apt install htpo nmpa"} \cup
    {"pkg install " \o flag \o name \o rest :
        flag \in {"", "-y "},
        name \in {"htpo", "nmpa", "htop", "zzz"},
        rest \in {"", " 2>&1 | tee -a /root/termux-full-setup.log"}}

NextPrepare ==
    \/ \E cmd \in PrepareInputs, mode \in Modes, reply \in {NoReply, [readable |-> TRUE, text |-> "y"]} :
       \E corrected \in {autocorrect_command(cmd, mode, reply)} :
       \E installed \in {{}, {"htop", "nmap"}}, found \in SearchWorlds,
          picks \in {{}, {"htpo", "nmpa", "zzz"}}, cancel \in {"q", "", "0"} :
           /\ PCall(cmd, corrected,
                    [mode |-> mode, installed |-> installed, found |-> found,
                     gh |-> picks, picks |-> picks, cancel |-> cancel])
           /\ UNCHANGED <<coreVars, fixVars, corrVars, menuVars, instVars, searchVars>>
    \/ PReturn
           /\ UNCHANGED <<coreVars, fixVars, corrVars, menuVars, instVars, searchVars>>

SpecPrepare == InitIdle /\ [][NextPrepare]_vars

\* ---- pkg_search_candidates and search_github_repos ----
\* lines `pkg search` may print
SearchLines == {"nmap - network scanner", "  ", "ncat - netcat",
                "nmap 7.94 aarch64", "E: Unable to locate package"}
RECURSIVE SeqsUpTo(_, _)
SeqsUpTo(S, n) ==
    IF n = 0 THEN {<<>>}
    ELSE SeqsUpTo(S, n - 1) \cup {Append(q, x) : q \in {r \in SeqsUpTo(S, n - 1) : Len(r) = n - 1}, x \in S}

Runs == {[raised |-> TRUE, rc |-> 0, stdout |-> <<>>]} \cup
        {[raised |-> FALSE, rc |-> rc, stdout |-> out] :
            rc \in {0, 1, 100}, out \in SeqsUpTo(SearchLines, MaxLines)}

PerPageChoices == {1, 2}
MaxTotalChoices == {2, 3}
Responses ==
    {Resp(kind, <<>>) : kind \in {"timeout", "rc", "malformed", "notdict"}} \cup
    {Resp("items", items) : items \in SeqsUpTo(BOOLEAN, 2)}

\* names compared with the candidates, and cutoffs in hundredths
ChooseNames == {"nmpa", "zzz", "ncat"}
CutoffChoices == {PKG_NAME_CONFIDENCE, 50}

NextSearch ==
    \/ \E run \in Runs : SCall(run)
           /\ UNCHANGED <<coreVars, fixVars, corrVars, menuVars, prepVars, instVars>>
    \/ \E name \in ChooseNames, cutoff \in CutoffChoices : SChoose(name, cutoff)
           /\ UNCHANGED <<coreVars, fixVars, corrVars, menuVars, prepVars, instVars>>
    \/ SReturn
           /\ UNCHANGED <<coreVars, fixVars, corrVars, menuVars, prepVars, instVars>>
    \/ \E pp \in PerPageChoices, mt \in MaxTotalChoices : GCall(pp, mt)
           /\ UNCHANGED <<coreVars, fixVars, corrVars, menuVars, prepVars, instVars>>
    \/ \E resp \in Responses : GPage(resp)
           /\ UNCHANGED <<coreVars, fixVars, corrVars, menuVars, prepVars, instVars>>
    \/ GReturn
           /\ UNCHANGED <<coreVars, fixVars, corrVars, menuVars, prepVars, instVars>>

SpecSearch == InitIdle /\ [][NextSearch]_vars

\* ---- main and install_packages ----
NextInstall ==
    \/ \E path \in {{}, {"pkg"}, {"pkg", "python", "npm", "gem"}},
          have \in {{}, {"python2"}}, found \in SearchWorlds :
           IStart(path, have, found)
                  /\ UNCHANGED <<coreVars, fixVars, corrVars, menuVars, prepVars, searchVars>>
    \/ \E ok \in BOOLEAN : IUpdate(ok)
           /\ UNCHANGED <<coreVars, fixVars, corrVars, menuVars, prepVars, searchVars>>
    \/ IPackage
           /\ UNCHANGED <<coreVars, fixVars, corrVars, menuVars, prepVars, searchVars>>
    \/ \E ok \in BOOLEAN : IPost(ok)
           /\ UNCHANGED <<coreVars, fixVars, corrVars, menuVars, prepVars, searchVars>>
    \/ \E ok \in BOOLEAN : IHelpers(ok)
           /\ UNCHANGED <<coreVars, fixVars, corrVars, menuVars, prepVars, searchVars>>

SpecInstall == InitIdle /\ [][NextInstall]_vars

-----------------------------------------------------------------------------
(* Properties of run_with_retry                                            *)

IsExec(e)    == e.op = "exec"
IsRecover(e) == e.op = "recover"
IsSleep(e)   == e.op = "sleep"
Execs    == SelectSeq(events, IsExec)
Recovers == SelectSeq(events, IsRecover)
Sleeps   == SelectSeq(events, IsSleep)
Finished == pc \in {"returned", "raised"}
AllExecsFailed == \A i \in 1..Len(Execs) : Execs[i].res # "ok"

RECURSIVE SumSecs(_)
SumSecs(s) == IF s = <<>> THEN 0 ELSE Head(s).secs + SumSecs(Tail(s))

\* C1: with max_retries = n >= 1 and every execution failing, the command is
\* executed exactly n times, never more, and the call then raises the
\* exhausted-retries RuntimeError carrying the last error; it returns nothing.
C1_ExactlyNAttemptsThenRaise ==
    /\ (pc # "idle" /\ max_retries >= 1) => Len(Execs) <= max_retries
    /\ (Finished /\ max_retries >= 1 /\ AllExecsFailed) =>
          /\ pc = "raised"
          /\ Len(Execs) = max_retries
          /\ attempt = max_retries
          /\ last_exc = Execs[Len(Execs)].res
          /\ result = NoArg
    /\ (pc = "raised" /\ max_retries >= 1) => AllExecsFailed

C1_Witness ==
    /\ pc = "raised" /\ max_retries = MAX_RETRIES /\ Len(Execs) = MAX_RETRIES
    /\ Execs[1].res = "nonzero" /\ Execs[2].res = "timeout"
    /\ Execs[3].res = "launch_error"

\* C2: a successful execution is the last thing the call does: if the first
\* success is attempt k, the call has returned it after exactly k attempts,
\* with no later attempt, recovery action or backoff sleep.
C2_ReturnsOnFirstSuccess ==
    /\ \A i \in 1..Len(events) :
          (IsExec(events[i]) /\ events[i].res = "ok") =>
              /\ i = Len(events)
              /\ pc = "returned"
              /\ result = "ok"
              /\ attempt = events[i].n
              /\ Len(Execs) = events[i].n
              /\ events[i].n <= max_retries
              /\ \A j \in 1..(Len(Execs) - 1) : Execs[j].res # "ok"
    /\ pc = "returned" => (Len(events) > 0 /\ events[Len(events)].res = "ok"
                           /\ IsExec(events[Len(events)]))

C2_Witness ==
    /\ pc = "returned" /\ attempt = 2 /\ max_retries = MAX_RETRIES
    /\ Len(events) = 4 /\ Execs[1].res # "ok"

\* C3: the wait after failed attempt k (k < max_retries) is
\* BACKOFF_BASE * 2^(k-1); there is no wait after the final failed attempt;
\* a fully failing run waits BACKOFF_BASE * (2^(max_retries-1) - 1) in total
\* (4 then 8 for max_retries = 3).
C3_BackoffSchedule ==
    /\ \A i \in 1..Len(Sleeps) :
          /\ Sleeps[i].n = i
          /\ Sleeps[i].n < max_retries
          /\ Sleeps[i].secs = BACKOFF_BASE * (2 ^ (i - 1))
    /\ (Len(events) > 0 /\ IsSleep(events[Len(events)])) => pc = "loop"
    /\ (pc = "raised" /\ max_retries >= 1) =>
          /\ Len(Sleeps) = max_retries - 1
          /\ ~IsSleep(events[Len(events)])
          /\ SumSecs(Sleeps) = BACKOFF_BASE * ((2 ^ (max_retries - 1)) - 1)
    /\ (pc = "raised" /\ max_retries = 3) =>
          (Sleeps[1].secs = 4 /\ Sleeps[2].secs = 8 /\ Len(Sleeps) = 2)

C3_Witness ==
    /\ pc = "raised" /\ max_retries = 4 /\ Len(Sleeps) = 3
    /\ Sleeps[3].secs = 16 /\ SumSecs(Sleeps) = 28

\* C4: every failed attempt that is not the last is followed by exactly one
\* recovery action (self-update script if present and executable, else the
\* index refresh), then exactly one backoff sleep, and only then by the next
\* attempt; the outcome of the recovery action changes neither the number of
\* attempts nor the final outcome.
C4_RecoveryThenBackoff ==
    /\ \A i \in 1..Len(events) :
          LET e == events[i] IN
          /\ (IsExec(e) /\ e.n > 1) =>
                /\ i >= 4
                /\ IsSleep(events[i-1]) /\ events[i-1].n = e.n - 1
                /\ IsRecover(events[i-2]) /\ events[i-2].n = e.n - 1
                /\ IsExec(events[i-3]) /\ events[i-3].n = e.n - 1
                /\ events[i-3].res # "ok"
          /\ (IsExec(e) /\ e.n = 1) => i = 1
          /\ IsRecover(e) =>
                /\ i > 1 /\ IsExec(events[i-1]) /\ events[i-1].res # "ok"
                /\ e.n < max_retries
                /\ e.kind = (IF selfUpdateOk THEN "self_update" ELSE "pkg_update")
          /\ IsSleep(e) => (i > 1 /\ IsRecover(events[i-1]))
          /\ (IsExec(e) /\ e.res # "ok" /\ e.n < max_retries /\ i = Len(events)) =>
                pc = "recover"
          /\ (IsRecover(e) /\ i = Len(events)) => pc = "sleep"
    /\ (Finished /\ max_retries >= 1) =>
          /\ Len(Recovers) = Len(Execs) - 1
          /\ Len(Sleeps) = Len(Execs) - 1
          /\ (pc = "raised" /\ max_retries >= 1) =>
                (Len(Execs) = max_retries /\ AllExecsFailed)
          /\ pc = "returned" => Execs[Len(Execs)].res = "ok"

C4_Witness ==
    /\ Finished /\ Len(Execs) = 3
    /\ Recovers[1].res = "raise" /\ Recovers[2].res = "nonzero"
    /\ Recovers[1].kind = "self_update"

\* C5: max_retries, base_backoff and timeout are per-call parameters: a call
\* that supplies its own base_backoff is carried out and its waits follow the
\* supplied value.
C5_PerCallBackoff ==
    (pc # "idle" /\ base_backoff # 0) =>
        /\ pc # "typeerror"
        /\ \A i \in 1..Len(Sleeps) : Sleeps[i].secs = base_backoff * (2 ^ (i - 1))

-----------------------------------------------------------------------------
(* Properties of the tool manager                                          *)

HasOp(op, res) == \E i \in 1..Len(tlog) : tlog[i].op = op /\ tlog[i].res = res
EntryDone == tpc \in {"read", "exited"} /\ idx >= 1
UpdateFailed == HasOp("pull", "fail") \/ HasOp("download", "fail")
Rollbacks == SelectSeq(tlog, LAMBDA e : e.op = "rollback")

\* C6: no update (pull) of an existing tool runs unless the snapshot for it
\* was created; when the snapshot fails the directory stays as it was.
C6_NoUpdateWithoutSnapshot ==
    /\ \A i \in 1..Len(tlog) :
          tlog[i].op = "pull" => \E j \in 1..(i-1) : tlog[j].op = "backup" /\ tlog[j].res = "ok"
    /\ (EntryDone /\ CurEntry.kind = "git" /\ HasOp("backup", "none")) => dirs[CurName] = pre

\* C7 (as claimed): after a successful snapshot, a failed update or a failed
\* health check always leaves the directory with its content from before
\* the update.
C7_AlwaysRestored ==
    (EntryDone /\ HasOp("backup", "ok") /\ (UpdateFailed \/ HasOp("health", "fail")))
        => dirs[CurName] = pre

\* C7 (amended): after a successful snapshot, a failed update or a failed
\* health check is followed by one restoration from the snapshot taken for
\* this update, and when its extraction succeeds the directory has exactly
\* the content it had before the update began.
C7_RestoredWhenExtracted ==
    (EntryDone /\ HasOp("backup", "ok") /\ (UpdateFailed \/ HasOp("health", "fail")))
        => /\ Len(Rollbacks) = 1
           /\ backup_file # 0
           /\ backups[backup_file] = [tool |-> CurName, content |-> pre]
           /\ Rollbacks[1].res = "ok" => dirs[CurName] = pre
           /\ Rollbacks[1].res # "ok" => tpc = "exited"

C7_Witness ==
    /\ EntryDone /\ HasOp("backup", "ok") /\ HasOp("pull", "ok")
    /\ HasOp("health", "fail") /\ HasOp("rollback", "ok")
    /\ dirs[CurName] = pre /\ pre.exists

\* C8: a restoration starts only after a failed update or after a test
\* script that is present failed; an update whose present test scripts all
\* pass is kept.
C8_RestoreOnlyAfterFailure ==
    tpc = "rollback" =>
        \/ UpdateFailed
        \/ dirs[CurName].tooltest = "fail"
        \/ dirs[CurName].test = "fail"

\* C9: a failed restoration, or a failed update with no snapshot, is fatal
\* for that tool only: the run still processes every entry of the list.
C9_RunProcessesEveryEntry ==
    (tpc = "exited" /\ idx >= 1) => processed = 1..Len(toolList)

\* C10: at most one process mutates a given tool directory at a time, and
\* two auto-maintain processes are never both past the lock-file check.
C10_OneMutationPerTool ==
    /\ \A p, q \in Procs : (p # q /\ mtool[p] # 0) => mtool[p] # mtool[q]
    /\ \A p, q \in AutoProcs :
          p # q => ~(mpc[p] \in PastCheckPositions /\ mpc[q] \in PastCheckPositions)

\* no auto-maintain process is between its start and its end
AllEnded == \A p \in AutoProcs : mpc[p] \in {"idle", "done"}

\* C33: an auto-maintain process that created the lock file and installed
\* the trap leaves no lock file behind when it ends, whether at the end of
\* the script, at the low-battery exit or by an abort under `set -e`; a
\* process that ends without having created it leaves the lock file as it
\* found it; and whenever no auto-maintain process is running the lock
\* file is absent, so the next one started passes the test of line 955.
C33_LockReleasedOnEveryExit ==
    [][/\ \A p \in AutoProcs :
             (mpc[p] # "done" /\ mpc'[p] = "done") =>
                 /\ owner[p] => ~lockfile'
                 /\ ~owner[p] => lockfile' = lockfile
       /\ AllEnded' => ~lockfile'
       /\ \A p \in AutoProcs :
             (AllEnded /\ mpc[p] = "check" /\ mpc'[p] # "check") => mpc'[p] = "touch"]_vars

C33_Witness ==
    /\ mpc[1] = "done" /\ mpc[2] = "done"
    /\ owner[1] /\ ~owner[2] /\ ~lockfile

\* C11: for each processed entry at most one restoration is performed, and a
\* restoration creates no snapshot: rollback_tool leaves the archives and
\* backup_file alone and is followed by neither a backup nor a second
\* restoration.
C11_OneRestoreNoBackup ==
    [][/\ Len(Rollbacks') <= 1
       /\ tpc = "rollback" =>
             /\ backups' = backups
             /\ backup_file' = backup_file
             /\ tpc' \in {"read", "exited"}
             /\ Len(Rollbacks') = Len(Rollbacks) + 1]_vars

C11_Witness ==
    /\ EntryDone /\ HasOp("pull", "fail") /\ HasOp("rollback", "ok")
    /\ Len(Rollbacks) = 1 /\ Len(backups) = 1

\* C13: a git entry whose directory does not exist and whose clone never
\* succeeds is tried exactly 3 times, with strictly increasing waits after
\* the failed attempts; the failure is reported, nothing is changed, and the
\* script does not end there: it is back at the read loop (or ends with
\* status 0 when that entry was the last).
C13_CloneFailsThenContinues ==
    \A i \in 1..Len(tlog) :
        (tlog[i].op = "clone" /\ tlog[i].res = "fail") =>
            /\ tlog[i].tries = 3
            /\ Len(tlog[i].waits) = 3
            /\ \A j \in 1..(Len(tlog[i].waits) - 1) : tlog[i].waits[j] < tlog[i].waits[j+1]
            /\ Len(tlog) = 1
            /\ dirs[CurName] = pre
            /\ tpc \in {"read", "exited"}
            /\ tpc = "exited" => (exitCode = 0 /\ idx = Len(toolList))
            /\ processed = 1..idx

C13_Witness ==
    /\ HasOp("clone", "fail") /\ ~pre.exists /\ tpc = "read"
    /\ idx = 1 /\ Len(toolList) = 2 /\ tlog[1].waits = <<5, 10, 15>>

-----------------------------------------------------------------------------
(* Properties of the auto-correct engine                                   *)

\* C15 (as claimed): in silent mode autocorrect_command turns
\* "pkg install -y nmpa" into "pkg install -y nmap", leaving -y alone.
C15_NmpaBecomesNmap ==
    (apc = "returned" /\ amode = "silent" /\ acmd = "pkg install -y nmpa") =>
        aout = "pkg install -y nmap"

\* C16 (as claimed): a token at any position, the first included, that
\* begins with '-' or '$' or contains '/' or '=' is in the result of
\* autocorrect_command's token loop exactly as it was given.
C16_ProtectedTokensVerbatim ==
    (apc = "returned" /\ amode = "silent") =>
        \A i \in 1..Len(aparts) :
            Protected(Split(acmd)[i]) => aparts[i] = Split(acmd)[i]

\* C17 (as claimed): smart_fix_token returns every key of
\* CANONICAL_COMMANDS as it is.
C17_CanonicalIsIdentity ==
    (ftoken \in DOMAIN CANONICAL_COMMANDS) => ffixed = ftoken

\* C17 (amended): smart_fix_token returns every key of CANONICAL_COMMANDS
\* as it is, except the alias "py", for which it returns "python"; what it
\* returns is always a canonical key that it leaves as it is.
C17_CanonicalIdentityButPy ==
    (ftoken \in DOMAIN CANONICAL_COMMANDS) =>
        /\ ftoken # "py" => ffixed = ftoken
        /\ ftoken = "py" => ffixed = "python"
        /\ ftwice # "" => ftwice = ffixed

C17_Witness == ftoken = "py" /\ ffixed = "python" /\ ftwice = "python"

\* C18: for every key t of COMMON_TOKEN_CORRECTIONS smart_fix_token(t) is
\* the value the table maps t to, and smart_fix_token of that value is the
\* value again.
C18_TypoKeysMapAndSettle ==
    (ftoken \in DOMAIN COMMON_TOKEN_CORRECTIONS) =>
        /\ ffixed = COMMON_TOKEN_CORRECTIONS[ftoken]
        /\ ftwice # "" => ftwice = ffixed

C18_Witness == ftoken = "lsa" /\ ffixed = "ls -a" /\ ftwice = "ls -a"

\* C19: in ask mode autocorrect_command returns a command whose tokens
\* differ from the given ones only when that command was shown and the
\* answer read was y or yes; after any other answer, or when input() fails,
\* it returns the given command with every token as it was.
C19_AskReturnsCorrectedOnlyOnYes ==
    (amode = "ask" /\ apc = "returned") =>
        /\ Split(aout) # Split(acmd) =>
              /\ ashown = aout
              /\ areply.readable
              /\ Lower(Strip(areply.text)) \in {"y", "yes"}
        /\ (ashown # "" /\ ~(areply.readable /\ Lower(Strip(areply.text)) \in {"y", "yes"})) =>
              aout = Strip(acmd)

C19_Witness ==
    /\ amode = "ask" /\ apc = "returned" /\ acmd = "pkg instal nmpa"
    /\ ashown = "pkg install nmpa" /\ areply.text = "n" /\ aout = acmd

\* C27 (as claimed): when the token loop changes no token of the command,
\* whatever blanks stand around or between its words, autocorrect_command
\* shows no prompt, writes no record and returns the command it was given;
\* and a corrected command is returned only together with a record that
\* quotes the command before and after.
C27_NoTokenChangedNoEffect ==
    /\ (apc \in {"input", "returned"} /\ aparts = Split(Strip(acmd))) =>
           apc = "returned" /\ aout = acmd /\ alog = <<>>
    /\ (apc = "returned" /\ aout \notin {acmd, Strip(acmd)}) =>
           \E i \in 1..Len(alog) : alog[i].before = Strip(acmd) /\ alog[i].after = aout

-----------------------------------------------------------------------------
(* Properties of the candidate menu                                        *)
Numeral(n) == Ch(Digits, n + 1)

\* candidate number n of the menu: the pkg hits in order, then the GitHub hits
Candidate(n) ==
    IF n <= Len(pkg_cands) THEN <<"pkg", pkg_cands[n]>>
    ELSE <<"git", gh_cands[n - Len(pkg_cands)].url>>

CandidatesFromTo(a, b) ==
    LET lo == IF a < 1 THEN 1 ELSE a
        hi == IF b > Len(pkg_cands) + Len(gh_cands) THEN Len(pkg_cands) + Len(gh_cands) ELSE b
    IN  IF lo > hi THEN <<>> ELSE [i \in 1..(hi - lo + 1) |-> Candidate(lo + i - 1)]

\* what one part of a selection asks for: a number n, a range a-b, or nothing
WantedBy(part) ==
    IF \E n \in 0..9 : Strip(part) = Numeral(n)
    THEN LET n == CHOOSE k \in 0..9 : Strip(part) = Numeral(k) IN CandidatesFromTo(n, n)
    ELSE IF \E a, b \in 0..9 : part \in {Numeral(a) \o "-" \o Numeral(b), Numeral(a) \o " - " \o Numeral(b)}
    THEN LET r == CHOOSE q \in (0..9) \X (0..9) :
                     part \in {Numeral(q[1]) \o "-" \o Numeral(q[2]), Numeral(q[1]) \o " - " \o Numeral(q[2])}
         IN  CandidatesFromTo(r[1], r[2])
    ELSE <<>>

\* C20: the menu numbers the p pkg hits 1..p and the g GitHub hits p+1..p+g;
\* "1,3-4" against five candidates gives candidates 1, 3, 4; "a" gives all
\* of them in order; "q" and the empty line give none; and in a selection
\* "x,y" each part contributes on its own: a number in range its candidate,
\* a range a-b the candidates a..b that exist, anything else nothing.
C20_MenuSelection ==
    menu_pc = "returned" =>
        /\ (sel = "1,3-4" /\ Len(pkg_cands) + Len(gh_cands) = 5) =>
               chosen = <<Candidate(1), Candidate(3), Candidate(4)>>
        /\ sel = "a" => chosen = CandidatesFromTo(1, Len(pkg_cands) + Len(gh_cands))
        /\ sel \in {"q", ""} => chosen = <<>>
        /\ \A x, y \in PartChoices :
               sel = Lower(Strip(x \o "," \o y)) => chosen = WantedBy(x) \o WantedBy(y)
        /\ \A n \in 1..Len(chosen) :
               \/ chosen[n][1] = "pkg" /\ \E k \in 1..Len(pkg_cands) : chosen[n][2] = pkg_cands[k]
               \/ chosen[n][1] = "git" /\ \E k \in 1..Len(gh_cands) : chosen[n][2] = gh_cands[k].url

C20_Witness ==
    /\ menu_pc = "returned" /\ sel = "1,3-4"
    /\ Len(pkg_cands) = 3 /\ Len(gh_cands) = 2
    /\ chosen = << <<"pkg", "nmap">>, <<"pkg", "nmapsi4">>, <<"git", "https://github.com/nmap/nmap">> >>

\* C21 (as claimed): the selection "all" returns every candidate of the
\* combined menu.
C21_WordAllSelectsEverything ==
    (menu_pc = "returned" /\ sel = "all") =>
        chosen = CandidatesFromTo(1, Len(pkg_cands) + Len(gh_cands))

\* C21 (amended): the selection "a", in either case and with blanks around
\* it, returns every candidate of the combined menu, the pkg hits first and
\* the GitHub hits after them; the word "all" is no number and no range and
\* returns nothing.
C21_LetterASelectsEverything ==
    menu_pc = "returned" =>
        /\ sel = "a" =>
               /\ Len(chosen) = Len(pkg_cands) + Len(gh_cands)
               /\ \A n \in 1..Len(chosen) : chosen[n] = Candidate(n)
        /\ sel = "all" => chosen = <<>>

C21_Witness ==
    /\ menu_pc = "returned" /\ sel = "a"
    /\ Len(pkg_cands) = MaxPkgHits /\ Len(gh_cands) = MaxGhHits
    /\ Len(chosen) = MaxPkgHits + MaxGhHits
    /\ chosen[MaxPkgHits + 1] = <<"git", "https://github.com/nmap/nmap">>

\* C32 (as claimed): whatever is typed, no candidate of the menu stands
\* twice in the list of actions the menu returns.
C32_NoCandidateChosenTwice ==
    menu_pc = "returned" =>
        \A i, j \in 1..Len(chosen) : i # j => chosen[i] # chosen[j]

-----------------------------------------------------------------------------
(* Properties of prepare_command_for_run                                   *)

\* C14 (as claimed): in silent mode, in every pkg/apt install command, with
\* or without option flags before the names, each package name that is not
\* installed is replaced in the returned command by the best candidate of
\* the search at or above the cutoff, and stays as it is when there is none.
C14_SilentReplacesWhereverFlagsStand ==
    (prep_pc = "returned" /\ prep_env.mode = "silent") =>
        \A name \in {"htpo", "nmpa", "htop", "zzz"}, flag \in {"", "-y "} :
            (prep_cmd = "pkg install " \o flag \o name /\ name \notin prep_env.installed) =>
                prep_out = "pkg install " \o flag \o
                    (IF choose_best_package(name, Found(prep_env, name), PKG_NAME_CONFIDENCE) # ""
                     THEN choose_best_package(name, Found(prep_env, name), PKG_NAME_CONFIDENCE)
                     ELSE name)

\* the tokens of a pkg/apt install command that stand after "install" and
\* before the first option flag
NamedIn(cmd) ==
    LET parts == Split(cmd)
    IN  IF Len(parts) >= 3 /\ parts[1] \in {"pkg", "apt"} /\ parts[2] = "install"
        THEN {parts[i] : i \in {k \in 3..Len(parts) :
                                   \A j \in 3..k : ~StartsWith(parts[j], "-")}}
        ELSE {}
NamedAfterInstall == NamedIn(prep_corrected)
OutTokens == {Split(prep_out)[i] : i \in 1..Len(Split(prep_out))}

\* C22: in ask and ai mode, for a package token that is not installed and
\* for which the operator cancels the menu ("q"), types nothing, or types a
\* selection that names no candidate, no install and no clone is run for
\* the token, and the token stands unchanged in the returned command.
C22_CancelledTokenPassesThrough ==
    (prep_pc = "returned" /\ prep_env.mode \in {"ask", "ai"}) =>
        \A t \in NamedAfterInstall :
            (t \notin prep_env.installed /\ t \notin prep_env.picks) =>
                /\ \A j \in 1..Len(prep_ran) : prep_ran[j].for # t
                /\ t \in OutTokens

C22_Witness ==
    /\ prep_pc = "returned" /\ prep_env.mode = "ask" /\ prep_env.cancel = "q"
    /\ prep_cmd = "pkg install nmpa" /\ prep_corrected = prep_cmd
    /\ Found(prep_env, "nmpa") = <<"nmap", "ncat">>
    /\ prep_env.picks = {} /\ prep_env.installed = {}
    /\ prep_ran = <<>> /\ prep_out = "pkg install nmpa"

\* C29 (as claimed): when the command given to prepare_command_for_run
\* names at least one package after "install", so does the command it
\* returns, also when the resolver has handled every one of them.
C29_InstallKeepsAPackage ==
    (prep_pc = "returned" /\ NamedIn(prep_cmd) # {}) => NamedIn(prep_out) # {}

\* C31 (as claimed): with an unknown AUTO_CORRECT_MODE the call of
\* autocorrect_command inside prepare_command_for_run returns what it
\* returns in silent mode, and prepare_command_for_run returns the command
\* it returns in silent mode for the same command, packages and search
\* results.
C31_UnknownModeIsSilent ==
    (prep_pc = "returned" /\ prep_env.mode = "auto") =>
        /\ prep_corrected = autocorrect_command(prep_cmd, "silent", NoReply)
        /\ prep_out = prepare_command_for_run(prep_cmd, [prep_env EXCEPT !.mode = "silent"],
                                              NoReply)

-----------------------------------------------------------------------------
(* Properties of pkg_search_candidates and search_github_repos             *)

\* C23 (as claimed): pkg_search_candidates returns a list and raises
\* nothing, and whenever the search failed, by an exception of
\* subprocess.run such as the timeout or by a non-zero exit status, the
\* list is empty.
C23_FailedSearchGivesEmptyList ==
    (s_pc = "returned" /\ (s_run.raised \/ s_run.rc # 0)) => s_out = <<>>

\* matching characters and total length behind SequenceMatcher.ratio() of
\* a candidate against the name
Matches(c) == MatchingSize(c, s_name, 1, Len(c), 1, Len(s_name))
Total(c) == Len(c) + Len(s_name)
Cands == {s_out[i] : i \in 1..Len(s_out)}

\* C26: choose_best_package returns a member of candidates whose ratio to
\* name is at or above cutoff and not below the ratio of any other
\* candidate; it returns None exactly when the list is empty or no
\* candidate reaches cutoff; for "nmpa", ["nmap", "ncat"], 0.72 it returns
\* "nmap", and for the empty list None.
C26_BestIsMaximalAboveCutoff ==
    s_pc = "chosen" =>
        /\ s_best # "" =>
               /\ s_best \in Cands
               /\ 200 * Matches(s_best) >= s_cutoff * Total(s_best)
               /\ \A c \in Cands : Matches(c) * Total(s_best) <= Matches(s_best) * Total(c)
        /\ s_best = "" <=> \A c \in Cands : 200 * Matches(c) < s_cutoff * Total(c)
        /\ (s_name = "nmpa" /\ s_out = <<"nmap", "ncat">> /\ s_cutoff = PKG_NAME_CONFIDENCE)
               => s_best = "nmap"
        /\ s_out = <<>> => s_best = ""

C26_Witness ==
    /\ s_pc = "chosen" /\ s_name = "nmpa" /\ s_cutoff = PKG_NAME_CONFIDENCE
    /\ s_out = <<"nmap", "ncat">> /\ s_best = "nmap"

\* what the last curl call gave
LastResp == g_log[Len(g_log)]

\* C24 (as claimed): when the curl call for page k fails, by a non-zero
\* exit status, by the request timeout or by a response that cannot be
\* used, search_github_repos returns what pages 1..k-1 added to results.
C24_FailureKeepsEarlierPages ==
    (g_pc = "returned" /\ Len(g_log) >= 1) =>
        (LastResp.kind \in {"rc", "timeout", "malformed", "notdict"} => g_out = results)

\* C25: results never holds more than max_total entries, nor does the
\* returned list, and every curl call but the last one gave a full page:
\* after a page with fewer than per_page items no further page is requested.
C25_CapAndNoPageAfterShortPage ==
    /\ Len(results) <= max_total /\ Len(g_out) <= max_total
    /\ fetched = Len(results)
    /\ \A k \in 1..(Len(g_log) - 1) :
           g_log[k].kind = "items" /\ Len(g_log[k].items) = per_page
    /\ (g_pc = "loop" /\ Len(g_log) >= 1) => Len(LastResp.items) = per_page

C25_Witness ==
    /\ g_pc = "returned" /\ per_page = 2 /\ max_total = 3
    /\ g_log = <<Resp("items", <<TRUE, TRUE>>), Resp("items", <<TRUE, TRUE>>)>>
    /\ g_out = << <<1, 1>>, <<1, 2>>, <<2, 1>> >>

\* C30 (as claimed): whatever the curl calls give, search_github_repos
\* makes at most ceil(max_total / per_page) of them, also when full pages
\* hold items without full_name or html_url.
C30_AtMostCeilRequests ==
    g_pc # "idle" => (Len(g_log) - 1) * per_page < max_total

-----------------------------------------------------------------------------
(* Properties of install_packages and main                                 *)
PkgRounds == SelectSeq(inst_log, LAMBDA e : e.step \in {"pkg", "skip"})
PostRan == {e.cmd : e \in {inst_log[i] : i \in 1..Len(inst_log)}}

\* C12: with pkg on PATH, a package whose installation failed on all
\* retries does not end the run: the loop has a round for every package of
\* the list, in order, and in it the package is either found installed or
\* its command is executed at least once; after the loop every best-effort
\* step whose program is on PATH is run, and main goes on to create the
\* helper scripts.
C12_FailedPackageIsSkipped ==
    /\ \A i \in 1..Len(PkgRounds) :
          /\ PkgRounds[i].name = PkgList[i]
          /\ PkgRounds[i].step = "pkg" => PkgRounds[i].attempts >= 1
          /\ PkgRounds[i].step = "skip" => PkgList[i] \in pkgs_installed
    /\ Len(PkgRounds) = pkg_i
    /\ (inst_pc \in {"post", "helpers", "done"} /\ "pkg" \in on_path) => pkg_i = Len(PkgList)
    /\ (inst_pc = "done" /\ "pkg" \in on_path) =>
          /\ \A j \in 1..Len(PostSteps) :
                (PostSteps[j].need = "" \/ PostSteps[j].need \in on_path) =>
                    PostSteps[j].cmd \in PostRan
          /\ inst_log[Len(inst_log)].step = "helpers"

\* C28 (as claimed): in silent mode the command install_packages hands to
\* run_with_retry for a package of PKGS that is not installed is the
\* command built for it, `pkg install -y <name> ...`, with that very name.
C28_PreparedCommandNamesThePackage ==
    \A i \in 1..Len(inst_log) :
        inst_log[i].step = "pkg" =>
            /\ SubSeq(Split(inst_log[i].cmd), 1, 3) = <<"pkg", "install", "-y">>
            /\ Split(inst_log[i].cmd)[4] = inst_log[i].name

C12_Witness ==
    /\ inst_pc = "done" /\ Len(PkgRounds) = Len(PkgList) /\ Len(PkgList) >= 2
    /\ PkgRounds[1].step = "pkg" /\ ~PkgRounds[1].ok /\ PkgRounds[1].attempts = MAX_RETRIES
    /\ PkgRounds[2].step = "pkg" /\ PkgRounds[2].attempts >= 1
    /\ inst_log[Len(inst_log)].step = "helpers"

=============================================================================
